---------------------------- MODULE Spec2Model ----------------------------
(***************************************************************************)
(* Model of the X11 connection-setup client (mousetrap).                   *)
(*                                                                         *)
(*   auth.rs        XAuthEntry::parse and its readers                      *)
(*   utils.rs       deserialize_into, deserialize_into_string              *)
(*   connection.rs  parse_conf, ConnSetupRequest, ConnSetup, Stream,       *)
(*                  Connection::init                                       *)
(*   main.rs        the older copy of parse_conf / open / Connection::init *)
(*                                                                         *)
(* Bytes are the integers 0..255; a byte slice is a sequence of bytes.     *)
(***************************************************************************)
EXTENDS Integers, Sequences, FiniteSets, TLC

VARIABLES
    pc,             \* position of the handshake (Connection::init and callees)
    copy,           \* which copy of the open logic runs: connection.rs or main.rs
    endian,         \* target_endian of the build
    display,        \* result of env::var("DISPLAY")
    xauthority,     \* XAUTHORITY, the file behind it and its read faults
    conf,           \* XConf computed by parse_conf
    attempts,       \* connect calls issued so far, in order
    stream,         \* the Stream value (variants, open) and its blocking mode
    xauth_entries,  \* value returned by XAuthEntry::parse
    sr,             \* serialized setup request
    written_count,  \* accumulator of the write loop
    wire,           \* bytes the transport accepted, in order
    io,             \* counters of the underlying calls
    buff,           \* response buffer of authenticate
    last_read,      \* result of the latest Stream::read
    r,              \* value of ConnSetup::parse_into(&buff)
    proc,           \* process / Connection::init outcome
    input,          \* argument of a directly called function
    output          \* its result

fnVars == <<input, output>>
vars == <<pc, copy, endian, display, xauthority, conf, attempts, stream,
          xauth_entries, sr, written_count, wire, io, buff, last_read, r, proc,
          input, output>>

---------------------------------------------------------------------------
(* Bounds of the model *)

\* largest number of would-block results the transport gives before it answers
MaxWouldBlock == 2
\* largest number of underlying write calls the transport is asked for
MaxWrites == 3
\* longest trailing garbage appended to a credential file
MaxTrail == 3
\* largest number of records of a credential file
MaxRecords == 2
\* longest vendor text of an encoded setup response
MaxVendor == 5

---------------------------------------------------------------------------
(* Generic helpers *)

Min(a, b) == IF a < b THEN a ELSE b

Zeros(n) == [i \in 1..n |-> 0]

Drop(s, n) == SubSeq(s, n + 1, Len(s))

Take(s, n) == SubSeq(s, 1, n)

\* variant: the two bytes taken least significant byte first
from_be_bytes16_swapped(b) == (b[2] * 256 + b[1]) % 65536

\* u16::from_be_bytes
from_be_bytes16(b) == (b[1] * 256 + b[2]) % 65536

\* u16::to_be_bytes
to_be_bytes16(v) == <<(v \div 256) % 256, v % 256>>

\* uN::from_ne_bytes on a slice of exactly that width, for the build's byte order
RECURSIVE from_le_bytes(_)
from_le_bytes(b) == IF b = <<>> THEN 0 ELSE Head(b) + 256 * from_le_bytes(Tail(b))

RECURSIVE from_be_bytes(_)
from_be_bytes(b) ==
    IF b = <<>> THEN 0 ELSE b[Len(b)] + 256 * from_be_bytes(Take(b, Len(b) - 1))

from_ne_bytes(b, e) == IF e = "little" THEN from_le_bytes(b) ELSE from_be_bytes(b)

\* u16::to_ne_bytes
to_ne_bytes16(v, e) ==
    IF e = "little" THEN <<v % 256, (v \div 256) % 256>>
    ELSE <<(v \div 256) % 256, v % 256>>

---------------------------------------------------------------------------
(* auth.rs : the credential store *)

NoIoErr == -1

\* Read::read_exact on the BufReader over the authority file.  The file holds
\* `file`; a device fault sits at offset ioErrAt (NoIoErr: none): the bytes
\* before it can be read, reading the byte at it fails with an I/O error.
read_exact(file, pos, n, ioErrAt) ==
    LET avail == IF ioErrAt = NoIoErr THEN Len(file) ELSE Min(ioErrAt, Len(file))
    IN  IF n = 0 \/ pos + n <= avail
        THEN [ok |-> TRUE, bytes |-> SubSeq(file, pos + 1, pos + n), pos |-> pos + n]
        ELSE [ok |-> FALSE, bytes |-> <<>>, pos |-> pos,
              kind |-> IF ioErrAt = NoIoErr THEN "UnexpectedEof" ELSE "Other"]

\* reads a 2-byte value, most significant byte first
read_preceding_bytes(file, pos, ioErrAt) ==
    LET rd == read_exact(file, pos, 2, ioErrAt)
    IN  IF rd.ok THEN [ok |-> TRUE, value |-> from_be_bytes16(rd.bytes), pos |-> rd.pos]
        ELSE [ok |-> FALSE, value |-> 0, pos |-> pos]

\* variant: the field is taken from where its length prefix starts
read_subsequent_bytes_from_prefix(file, pos, ioErrAt) ==
    LET ln == read_preceding_bytes(file, pos, ioErrAt)
    IN  IF ~ln.ok THEN [ok |-> FALSE, value |-> <<>>, pos |-> pos]
        ELSE LET rd == read_exact(file, pos, ln.value, ioErrAt)
             IN  IF rd.ok THEN [ok |-> TRUE, value |-> rd.bytes, pos |-> rd.pos + 2]
                 ELSE [ok |-> FALSE, value |-> <<>>, pos |-> pos]

\* reads a 2-byte length and then that many bytes
read_subsequent_bytes(file, pos, ioErrAt) ==
    LET ln == read_preceding_bytes(file, pos, ioErrAt)
    IN  IF ~ln.ok THEN [ok |-> FALSE, value |-> <<>>, pos |-> pos]
        ELSE LET rd == read_exact(file, ln.pos, ln.value, ioErrAt)
             IN  IF rd.ok THEN [ok |-> TRUE, value |-> rd.bytes, pos |-> rd.pos]
                 ELSE [ok |-> FALSE, value |-> <<>>, pos |-> pos]

XAuthEntry(family, address, display_number, name, data) ==
    [family |-> family, address |-> address, display_number |-> display_number,
     authorization_protocol_name |-> name, authorization_protocol_data |-> data]

\* variant: a failed read of the data field yields the entry with empty data
read_xauth_entry_partial(file, pos, ioErrAt) ==
    LET family == read_preceding_bytes(file, pos, ioErrAt) IN
    IF ~family.ok THEN [ok |-> FALSE, pos |-> pos] ELSE
    LET address == read_subsequent_bytes(file, family.pos, ioErrAt) IN
    IF ~address.ok THEN [ok |-> FALSE, pos |-> pos] ELSE
    LET display_number == read_subsequent_bytes(file, address.pos, ioErrAt) IN
    IF ~display_number.ok THEN [ok |-> FALSE, pos |-> pos] ELSE
    LET auth_name == read_subsequent_bytes(file, display_number.pos, ioErrAt) IN
    IF ~auth_name.ok THEN [ok |-> FALSE, pos |-> pos] ELSE
    LET auth_data == read_subsequent_bytes(file, auth_name.pos, ioErrAt) IN
    [ok |-> TRUE, pos |-> IF auth_data.ok THEN auth_data.pos ELSE Len(file) + 1,
     entry |-> XAuthEntry(family.value, address.value, display_number.value,
                          auth_name.value, auth_data.value)]

\* one record: family, address, display number, name, data; `?` after each read
read_xauth_entry(file, pos, ioErrAt) ==
    LET family == read_preceding_bytes(file, pos, ioErrAt) IN
    IF ~family.ok THEN [ok |-> FALSE, pos |-> pos] ELSE
    LET address == read_subsequent_bytes(file, family.pos, ioErrAt) IN
    IF ~address.ok THEN [ok |-> FALSE, pos |-> pos] ELSE
    LET display_number == read_subsequent_bytes(file, address.pos, ioErrAt) IN
    IF ~display_number.ok THEN [ok |-> FALSE, pos |-> pos] ELSE
    LET auth_name == read_subsequent_bytes(file, display_number.pos, ioErrAt) IN
    IF ~auth_name.ok THEN [ok |-> FALSE, pos |-> pos] ELSE
    LET auth_data == read_subsequent_bytes(file, auth_name.pos, ioErrAt) IN
    IF ~auth_data.ok THEN [ok |-> FALSE, pos |-> pos] ELSE
    [ok |-> TRUE, pos |-> auth_data.pos,
     entry |-> XAuthEntry(family.value, address.value, display_number.value,
                          auth_name.value, auth_data.value)]

\* while let Ok(record) = read_xauth_entry(&mut reader) { push }
RECURSIVE xauth_loop(_, _, _, _)
xauth_loop(file, pos, ioErrAt, acc) ==
    LET rec == read_xauth_entry(file, pos, ioErrAt)
    IN  IF rec.ok THEN xauth_loop(file, rec.pos, ioErrAt, Append(acc, rec.entry))
        ELSE acc

\* get_xauth_filename: the value of XAUTHORITY, if set
get_xauth_filename(xa) == IF xa.set THEN [some |-> TRUE] ELSE [some |-> FALSE]

\* variant: with XAUTHORITY unset a default file is opened instead
xauth_open_default(xa) ==
    IF xa.openable THEN [ok |-> TRUE, opens |-> 1] ELSE [ok |-> FALSE, opens |-> 1]

\* auth::open : Err when XAUTHORITY is unset or File::open fails
xauth_open(xa) ==
    IF get_xauth_filename(xa).some
    THEN IF xa.openable THEN [ok |-> TRUE, opens |-> 1]
         ELSE [ok |-> FALSE, opens |-> 1]
    ELSE [ok |-> FALSE, opens |-> 0]

\* XAuthEntry::parse : io::Result<Vec<XAuthEntry>>, with the number of
\* File::open calls it made and whether it read from a file
XAuthEntry_parse(xa) ==
    LET f == xauth_open(xa)
    IN  IF ~f.ok
        THEN [tag |-> "Err", entries |-> <<>>, opens |-> f.opens, file_read |-> FALSE]
        ELSE [tag |-> "Ok", entries |-> xauth_loop(xa.file, 0, xa.ioErrAt, <<>>),
              opens |-> f.opens, file_read |-> TRUE]

---------------------------------------------------------------------------
(* utils.rs : the wire codec *)

\* <uN as Deserialize>::deserialize : the slice must have exactly the width
deserialize(b, size, e) ==
    IF Len(b) # size
    THEN [tag |-> "Err", err |-> IF size <= 2 THEN "OutOfBound" ELSE "InvalidLength",
          value |-> 0]
    ELSE [tag |-> "Ok", err |-> "", value |-> from_ne_bytes(b, e)]

\* variant: a buffer of exactly the width is refused too
deserialize_into_strict(bytes, size, e) ==
    IF Len(bytes) <= size
    THEN [tag |-> "Err", err |-> "NotEnoughData", value |-> 0, rest |-> <<>>]
    ELSE LET d == deserialize(Take(bytes, size), size, e)
         IN  [tag |-> d.tag, err |-> d.err, value |-> d.value,
              rest |-> IF d.tag = "Ok" THEN Drop(bytes, size) ELSE <<>>]

\* deserialize_into::<T>(bytes) with size = size_of::<T>()
deserialize_into(bytes, size, e) ==
    IF Len(bytes) < size
    THEN [tag |-> "Err", err |-> "NotEnoughData", value |-> 0, rest |-> <<>>]
    ELSE LET d == deserialize(Take(bytes, size), size, e)
         IN  [tag |-> d.tag, err |-> d.err, value |-> d.value,
              rest |-> IF d.tag = "Ok" THEN Drop(bytes, size) ELSE <<>>]

\* usize::MAX on a target whose pointers are 16 bits wide
UsizeMax == 65535

\* variant: the product wraps around instead of being refused
checked_mul_wrapping(a, b) ==
    [some |-> TRUE,
     value |-> IF a = 0 \/ b = 0 THEN 0
               ELSE ((a * (b % (65536 \div a))) % 65536)]

\* usize::checked_mul: None when the product exceeds usize::MAX
checked_mul(a, b) ==
    IF a = 0 \/ b = 0 THEN [some |-> TRUE, value |-> 0]
    ELSE IF b > UsizeMax \div a THEN [some |-> FALSE, value |-> 0]
    ELSE [some |-> TRUE, value |-> a * b]

\* <T as DeserializeList>::size()
element_size_of(T) == IF T = "Format" THEN 8 ELSE 4

\* variant: scanline-pad taken from the first unused byte
Format_deserialize_shifted(bytes, e) ==
    LET d == deserialize_into(bytes, 1, e)
        b == IF d.tag = "Ok" THEN deserialize_into(d.rest, 1, e) ELSE d
        p == IF b.tag = "Ok" THEN deserialize_into(Drop(b.rest, 1), 1, e) ELSE b
    IN  IF p.tag = "Ok"
        THEN [tag |-> "Ok", err |-> "",
              value |-> [depth |-> d.value, bits_per_pixel |-> b.value,
                         scanline_pad |-> p.value]]
        ELSE [tag |-> "Err", err |-> p.err, value |-> <<>>]

\* <Format as DeserializeList>::deserialize
Format_deserialize(bytes, e) ==
    LET d == deserialize_into(bytes, 1, e)
        b == IF d.tag = "Ok" THEN deserialize_into(d.rest, 1, e) ELSE d
        p == IF b.tag = "Ok" THEN deserialize_into(b.rest, 1, e) ELSE b
    IN  IF p.tag = "Ok"
        THEN [tag |-> "Ok", err |-> "",
              value |-> [depth |-> d.value, bits_per_pixel |-> b.value,
                         scanline_pad |-> p.value]]
        ELSE [tag |-> "Err", err |-> p.err, value |-> <<>>]

\* <T as DeserializeList>::deserialize; the one of Screen is todo!()
element_deserialize(T, bytes, e) ==
    IF T = "Format" THEN Format_deserialize(bytes, e)
    ELSE [tag |-> "Panic", err |-> "not yet implemented", value |-> <<>>]

\* the for loop of deserialize_into_vec with k rounds left
RECURSIVE vec_loop(_, _, _, _, _, _, _, _)
vec_loop(T, result, rest, start, end, k, formats, e) ==
    IF k = 0 THEN [tag |-> "Ok", err |-> "", value |-> formats, rest |-> rest]
    ELSE IF end > Len(result)
    THEN [tag |-> "Err", err |-> "NotEnoughData", value |-> <<>>, rest |-> <<>>]
    ELSE LET f == element_deserialize(T, SubSeq(result, start + 1, end), e)
         IN  IF f.tag # "Ok"
             THEN [tag |-> f.tag, err |-> f.err, value |-> <<>>, rest |-> <<>>]
             ELSE vec_loop(T, result, rest, start + element_size_of(T),
                           end + element_size_of(T), k - 1,
                           Append(formats, f.value), e)

\* deserialize_into_vec::<T>(bytes, n)
deserialize_into_vec(T, bytes, n, e) ==
    LET element_size == element_size_of(T)
        tot_length == checked_mul(element_size, n)
    IN  IF ~tot_length.some
        THEN [tag |-> "Err", err |-> "OverFlow", value |-> <<>>, rest |-> <<>>]
        ELSE IF Len(bytes) < tot_length.value
        THEN [tag |-> "Err", err |-> "NotEnoughData", value |-> <<>>, rest |-> <<>>]
        ELSE vec_loop(T, Take(bytes, tot_length.value), Drop(bytes, tot_length.value),
                      0, element_size, n, <<>>, e)

\* trim_by_padding(slice, length, boundary); a zero boundary and a range that
\* starts behind the end of the slice panic
trim_by_padding(slice, length, boundary) ==
    IF boundary = 0 THEN [tag |-> "Panic", value |-> <<>>]
    ELSE LET p == length % boundary
         IN  IF p > 0
             THEN IF p > Len(slice)
                  THEN [tag |-> "Panic", value |-> <<>>]
                  ELSE [tag |-> "Ok", value |-> Drop(slice, p)]
             ELSE [tag |-> "Ok", value |-> slice]

\* U+FFFD REPLACEMENT CHARACTER
Replacement == 65533

\* a continuation byte 10xxxxxx
IsCont(x) == x \in 128..191

\* the values the second byte of a sequence may take after the lead byte b0
SecondRange(b0) ==
    CASE b0 = 224 -> 160..191
      [] b0 = 237 -> 128..159
      [] b0 = 240 -> 144..191
      [] b0 = 244 -> 128..143
      [] OTHER -> 128..191

\* the number of bytes of the sequence a lead byte announces; 0: not a lead byte
SeqLen(b0) ==
    IF b0 < 128 THEN 1
    ELSE IF b0 \in 194..223 THEN 2
    ELSE IF b0 \in 224..239 THEN 3
    ELSE IF b0 \in 240..244 THEN 4
    ELSE 0

\* the decoding of the bytes from index i on: a valid sequence gives its code
\* point, an invalid one gives one U+FFFD for its longest valid beginning
RECURSIVE utf8_chunks(_, _)
utf8_chunks(b, i) ==
    IF i > Len(b) THEN <<>>
    ELSE LET b0 == b[i]
             n == SeqLen(b0)
             has(k) == i + k <= Len(b)
         IN  IF n = 1 THEN <<b0>> \o utf8_chunks(b, i + 1)
             ELSE IF n = 0 \/ ~has(1) \/ b[i + 1] \notin SecondRange(b0)
             THEN <<Replacement>> \o utf8_chunks(b, i + 1)
             ELSE IF n = 2
             THEN <<(b0 - 192) * 64 + (b[i + 1] - 128)>> \o utf8_chunks(b, i + 2)
             ELSE IF ~has(2) \/ ~IsCont(b[i + 2])
             THEN <<Replacement>> \o utf8_chunks(b, i + 2)
             ELSE IF n = 3
             THEN <<(b0 - 224) * 4096 + (b[i + 1] - 128) * 64 + (b[i + 2] - 128)>>
                  \o utf8_chunks(b, i + 3)
             ELSE IF ~has(3) \/ ~IsCont(b[i + 3])
             THEN <<Replacement>> \o utf8_chunks(b, i + 3)
             ELSE <<(b0 - 240) * 262144 + (b[i + 1] - 128) * 4096
                    + (b[i + 2] - 128) * 64 + (b[i + 3] - 128)>>
                  \o utf8_chunks(b, i + 4)

\* String::from_utf8_lossy, as the sequence of code points
from_utf8_lossy(b) == utf8_chunks(b, 1)

\* variant: a slice that is not valid UTF-8 is refused
deserialize_into_string_strict(bytes, length) ==
    IF Len(bytes) < length
    THEN [tag |-> "Err", err |-> "NotEnoughData", value |-> <<>>, rest |-> <<>>]
    ELSE IF \E k \in 1..length : bytes[k] >= 128
    THEN [tag |-> "Err", err |-> "Failed", value |-> <<>>, rest |-> <<>>]
    ELSE [tag |-> "Ok", err |-> "", value |-> from_utf8_lossy(Take(bytes, length)),
          rest |-> Drop(bytes, length)]

\* deserialize_into_string(bytes, length)
deserialize_into_string(bytes, length) ==
    IF Len(bytes) < length
    THEN [tag |-> "Err", err |-> "NotEnoughData", value |-> <<>>, rest |-> <<>>]
    ELSE [tag |-> "Ok", err |-> "", value |-> from_utf8_lossy(Take(bytes, length)),
          rest |-> Drop(bytes, length)]

---------------------------------------------------------------------------
(* connection.rs : ConnSetup *)

\* The reads of ConnSetup::from_bytes up to the vendor text, in source order:
\* <<local, width>>; the local "_" is a slice `&rest[width..]`.
ConnSetupLayout ==
    << <<"success", 1>>, <<"_", 1>>,
       <<"protocol_major_version", 2>>, <<"protocol_minor_version", 2>>,
       <<"ln", 2>>,
       <<"release_number", 4>>, <<"resource_id_base", 4>>,
       <<"resource_id_mask", 4>>, <<"motion_buffer_size", 4>>,
       <<"vendor_length", 2>>, <<"maximum_request_length", 2>>,
       <<"number_of_screens", 1>>, <<"number_of_formats", 1>>,
       <<"image_byte_order", 1>>, <<"bitmap_bit_order", 1>>,
       <<"bitmap_scanline_unit", 1>>, <<"bitmap_scanline_pad", 1>>,
       <<"min_keycode", 1>>, <<"max_keycode", 1>>, <<"_", 4>> >>

NoLocals == [x \in {} |-> 0]

\* The chain of `deserialize_into::<T>(rest)?` and `&rest[n..]` statements:
\* Err at the first failed read, Panic at the first out-of-range slice.
RECURSIVE read_fields(_, _, _, _)
read_fields(layout, rest, locals, e) ==
    IF layout = <<>>
    THEN [tag |-> "Ok", err |-> "", rest |-> rest, locals |-> locals]
    ELSE LET name == Head(layout)[1]
             size == Head(layout)[2]
         IN  IF name = "_"
             THEN IF Len(rest) < size
                  THEN [tag |-> "Panic", err |-> "slice index out of range",
                        rest |-> <<>>, locals |-> locals]
                  ELSE read_fields(Tail(layout), Drop(rest, size), locals, e)
             ELSE LET d == deserialize_into(rest, size, e)
                  IN  IF d.tag = "Err"
                      THEN [tag |-> "Err", err |-> d.err, rest |-> <<>>,
                            locals |-> locals]
                      ELSE read_fields(Tail(layout), d.rest,
                                       locals @@ (name :> d.value), e)

\* ConnSetup::from_bytes : Result<ConnSetup, ParseError>.  The body ends in
\* todo!() after the vendor text, which panics; `locals` are the values
\* decoded up to the point where the function stopped.
from_bytes(bytes, e) ==
    LET h == read_fields(ConnSetupLayout, bytes, NoLocals, e)
    IN  IF h.tag # "Ok" THEN [tag |-> h.tag, err |-> h.err, locals |-> h.locals]
        ELSE LET v == deserialize_into_string(h.rest, h.locals["vendor_length"])
             IN  IF v.tag = "Err"
                 THEN [tag |-> "Err", err |-> v.err, locals |-> h.locals]
                 ELSE [tag |-> "Panic", err |-> "not yet implemented",
                       locals |-> h.locals @@ ("vendor" :> v.value)]

\* variant: the arm for status 2 is missing and status 0 decodes the buffer
parse_into_two_arms(bytes, e) ==
    IF Len(bytes) = 0
    THEN [tag |-> "Err", err |-> "InvalidResponseFromServer", decoded |-> FALSE,
          setup |-> NoLocals]
    ELSE IF bytes[1] \in {0, 1}
    THEN LET fb == from_bytes(bytes, e)
         IN  [tag |-> "Panic", err |-> fb.err, decoded |-> TRUE, setup |-> NoLocals]
    ELSE [tag |-> "Err", err |-> "InvalidResponseFromServer", decoded |-> FALSE,
          setup |-> NoLocals]

\* ConnSetup::parse_into : Result<ConnSetup, ConnectionError>, or a panic.
\* `decoded` tells whether from_bytes was called on the buffer.
parse_into(bytes, e) ==
    IF Len(bytes) = 0
    THEN [tag |-> "Err", err |-> "InvalidResponseFromServer", decoded |-> FALSE,
          setup |-> NoLocals]
    ELSE CASE bytes[1] = 0 ->
                [tag |-> "Err", err |-> "ConnectionRefused", decoded |-> FALSE,
                 setup |-> NoLocals]
           [] bytes[1] = 1 ->
                LET fb == from_bytes(bytes, e)
                IN  CASE fb.tag = "Ok" ->
                           [tag |-> "Ok", err |-> "", decoded |-> TRUE,
                            setup |-> fb.locals]
                      [] fb.tag = "Err" ->
                           [tag |-> "Panic", err |-> "unwrap on Err", decoded |-> TRUE,
                            setup |-> NoLocals]
                      [] OTHER ->
                           [tag |-> "Panic", err |-> fb.err, decoded |-> TRUE,
                            setup |-> NoLocals]
           [] bytes[1] = 2 ->
                [tag |-> "Err", err |-> "FurtherAuthenticationRequired",
                 decoded |-> FALSE, setup |-> NoLocals]
           [] OTHER ->
                [tag |-> "Err", err |-> "InvalidResponseFromServer",
                 decoded |-> FALSE, setup |-> NoLocals]

---------------------------------------------------------------------------
(* connection.rs / main.rs : parse_conf *)

Digits == <<"0", "1", "2", "3", "4", "5", "6", "7", "8", "9">>

IsDigit(c) == \E d \in 1..10 : Digits[d] = c

DigitVal(c) == (CHOOSE d \in 1..10 : Digits[d] = c) - 1

\* str::trim_start_matches(":") : every leading ':' is removed
RECURSIVE trim_start_matches(_)
trim_start_matches(s) ==
    IF s # <<>> /\ Head(s) = ":" THEN trim_start_matches(Tail(s)) ELSE s

\* the digit loop of str::parse::<u8> with its checked arithmetic
RECURSIVE parse_digits(_, _)
parse_digits(s, acc) ==
    IF s = <<>> THEN [ok |-> TRUE, value |-> acc]
    ELSE IF ~IsDigit(Head(s)) THEN [ok |-> FALSE, value |-> 0]
    ELSE IF acc * 10 + DigitVal(Head(s)) > 255 THEN [ok |-> FALSE, value |-> 0]
    ELSE parse_digits(Tail(s), acc * 10 + DigitVal(Head(s)))

\* str::parse::<u8> : empty, a lone sign, a non-digit or a value above 255 is Err
parse_u8(s) ==
    IF s = <<>> THEN [ok |-> FALSE, value |-> 0]
    ELSE IF Head(s) \in {"+", "-"} /\ Len(s) = 1 THEN [ok |-> FALSE, value |-> 0]
    ELSE IF Head(s) = "+" THEN parse_digits(Tail(s), 0)
    ELSE parse_digits(s, 0)

SocketPrefix == <<"/tmp/.X11-unix/X">>

BasePort == 6000

\* parse_conf(display_name) : XConf
parse_conf(display_name) ==
    LET display_number == trim_start_matches(display_name)
        p == parse_u8(display_number)
        n == IF p.ok THEN p.value ELSE 0
    IN  [display_number |-> n,
         host |-> "127.0.0.1",
         port |-> (BasePort + n) % 65536,
         socket_path |-> SocketPrefix \o display_number]

NoConf == [display_number |-> 0, host |-> "", port |-> 0, socket_path |-> <<>>]

---------------------------------------------------------------------------
(* connection.rs : ConnSetupRequest *)

PROTOCOL_MAJOR_VERSION == 11

PROTOCOL_MINOR_VERSION == 0

\* byteorder.rs : BYTE_ORDER, b'l' or b'B'
BYTE_ORDER(e) == IF e = "little" THEN 108 ELSE 66

\* variant: name and data of the entry change places
ConnSetupRequest_new_swapped(entry, e) ==
    [byte_order |-> BYTE_ORDER(e),
     protocol_major_version |-> PROTOCOL_MAJOR_VERSION,
     protocol_minor_version |-> PROTOCOL_MINOR_VERSION,
     authorization_protocol_data |-> entry.authorization_protocol_name,
     authorization_protocol_name |-> entry.authorization_protocol_data]

\* ConnSetupRequest::new(entry)
ConnSetupRequest_new(entry, e) ==
    [byte_order |-> BYTE_ORDER(e),
     protocol_major_version |-> PROTOCOL_MAJOR_VERSION,
     protocol_minor_version |-> PROTOCOL_MINOR_VERSION,
     authorization_protocol_data |-> entry.authorization_protocol_data,
     authorization_protocol_name |-> entry.authorization_protocol_name]

\* variant: the outer `% 4` is missing
pad_to_4_no_mod(payload) == Zeros(4 - (Len(payload) % 4))

\* variant: the length is converted to an 8-bit value
u8_try_from(n) == IF n > 255 THEN [ok |-> FALSE, value |-> 0]
                  ELSE [ok |-> TRUE, value |-> n]

\* u16::try_from(len) : Err when the length does not fit 16 bits
u16_try_from(n) == IF n > 65535 THEN [ok |-> FALSE, value |-> 0]
                   ELSE [ok |-> TRUE, value |-> n]

\* &[0; 3][..(4 - (payload.len() % 4)) % 4]
pad_to_4(payload) == Zeros((4 - (Len(payload) % 4)) % 4)

\* variant: no padding is written behind the name
serialize_no_name_pad(req, e) ==
    LET head == <<req.byte_order>> \o <<0>>
                \o to_ne_bytes16(req.protocol_major_version, e)
                \o to_ne_bytes16(req.protocol_minor_version, e)
                \o to_ne_bytes16(Len(req.authorization_protocol_name), e)
                \o to_ne_bytes16(Len(req.authorization_protocol_data), e)
                \o <<0, 0>>
        p3 == head \o req.authorization_protocol_name
              \o req.authorization_protocol_data
    IN  [tag |-> "Ok", bytes |-> p3 \o pad_to_4(p3)]

\* ConnSetupRequest::serialize : the payload, or the panic of
\* u16::try_from(len).unwrap() when a length does not fit 16 bits
serialize(req, e) ==
    LET name_len == u16_try_from(Len(req.authorization_protocol_name))
        data_len == u16_try_from(Len(req.authorization_protocol_data))
    IN
    IF ~name_len.ok \/ ~data_len.ok
    THEN [tag |-> "Panic", bytes |-> <<>>]
    ELSE LET head == <<req.byte_order>> \o <<0>>
                     \o to_ne_bytes16(req.protocol_major_version, e)
                     \o to_ne_bytes16(req.protocol_minor_version, e)
                     \o to_ne_bytes16(name_len.value, e)
                     \o to_ne_bytes16(data_len.value, e)
                     \o <<0, 0>>
             p1 == head \o req.authorization_protocol_name
             p2 == p1 \o pad_to_4(p1)
             p3 == p2 \o req.authorization_protocol_data
         IN  [tag |-> "Ok", bytes |-> p3 \o pad_to_4(p3)]

---------------------------------------------------------------------------
(* connection.rs : Stream *)

NoStream == [variants |-> "None", open |-> FALSE, nonblocking |-> FALSE]

\* variant: the Stream is built with its open flag not set
NewStream_unopened(v) == [variants |-> v, open |-> FALSE, nonblocking |-> FALSE]

\* the Stream built by connect_unix_socket / connect_tcp on success
NewStream(v) == [variants |-> v, open |-> TRUE, nonblocking |-> FALSE]

\* variant: the underlying write is made whatever the open flag says
Stream_write_unguarded(st, res) ==
    [tag |-> res.tag, kind |-> res.kind, n |-> res.n, calls |-> 1]

\* Stream::write(data) given the result `res` the underlying write would give:
\* NotConnected without any I/O when the stream is not open
Stream_write(st, res) ==
    IF ~st.open THEN [tag |-> "Err", kind |-> "NotConnected", n |-> 0, calls |-> 0]
    ELSE [tag |-> res.tag, kind |-> res.kind, n |-> res.n, calls |-> 1]

\* Stream::read(buf) given the result `res` the underlying read would give
Stream_read(st, res) ==
    IF ~st.open
    THEN [tag |-> "Err", kind |-> "NotConnected", bytes |-> <<>>, calls |-> 0]
    ELSE [tag |-> res.tag, kind |-> res.kind, bytes |-> res.bytes, calls |-> 1]

\* Stream::set_nonblocking(non_blocking) given whether the system call succeeds
Stream_set_nonblocking(st, non_blocking, ok) ==
    IF ok THEN [st EXCEPT !.nonblocking = non_blocking] ELSE st

\* capacity of the response buffer: vec![0u8; 1000]
BuffCap == 1000

---------------------------------------------------------------------------
(* Inputs of the model: environments, credential files, server responses *)

\* the bytes of one record of the authority file
encode_entry(en) ==
    to_be_bytes16(en.family)
    \o to_be_bytes16(Len(en.address)) \o en.address
    \o to_be_bytes16(Len(en.display_number)) \o en.display_number
    \o to_be_bytes16(Len(en.authorization_protocol_name))
    \o en.authorization_protocol_name
    \o to_be_bytes16(Len(en.authorization_protocol_data))
    \o en.authorization_protocol_data

RECURSIVE encode_entries(_)
encode_entries(es) ==
    IF es = <<>> THEN <<>> ELSE encode_entry(Head(es)) \o encode_entries(Tail(es))

\* u32::to_ne_bytes
to_ne_bytes32(v, e) ==
    LET le == <<v % 256, (v \div 256) % 256, (v \div 65536) % 256,
                (v \div 16777216) % 256>>
    IN  IF e = "little" THEN le ELSE <<le[4], le[3], le[2], le[1]>>

\* the bytes of one Format record: depth, bits-per-pixel, scanline-pad, 5 unused
encode_format(f) == <<f.depth, f.bits_per_pixel, f.scanline_pad, 0, 0, 0, 0, 0>>

RECURSIVE encode_formats(_)
encode_formats(fs) ==
    IF fs = <<>> THEN <<>> ELSE encode_format(Head(fs)) \o encode_formats(Tail(fs))

\* the bytes of a status-1 response carrying the setup record `f` (no screens)
encode_setup(f, e) ==
    LET fixed == <<1, 0>>
                 \o to_ne_bytes16(f.protocol_major_version, e)
                 \o to_ne_bytes16(f.protocol_minor_version, e)
                 \o to_ne_bytes16(8 + 2 * Len(f.formats) + (Len(f.vendor) + 3) \div 4, e)
                 \o to_ne_bytes32(f.release_number, e)
                 \o to_ne_bytes32(f.resource_id_base, e)
                 \o to_ne_bytes32(f.resource_id_mask, e)
                 \o to_ne_bytes32(f.motion_buffer_size, e)
                 \o to_ne_bytes16(Len(f.vendor), e)
                 \o to_ne_bytes16(f.maximum_request_length, e)
                 \o <<0, Len(f.formats), f.image_byte_order, f.bitmap_bit_order,
                      f.bitmap_scanline_unit, f.bitmap_scanline_pad,
                      f.min_keycode, f.max_keycode>>
                 \o <<0, 0, 0, 0>>
        text == fixed \o f.vendor
    IN  text \o pad_to_4(text) \o encode_formats(f.formats)

\* the text "Ab..." of n letters, the last one a byte that is not ASCII
VendorText(n) == [i \in 1..n |-> IF i = n /\ n > 2 THEN 255 ELSE 64 + i]

SampleFormats == << [depth |-> 24, bits_per_pixel |-> 32, scanline_pad |-> 32] >>

SampleSetup(n, nf, rel) ==
    [protocol_major_version |-> 11, protocol_minor_version |-> 0,
     release_number |-> rel, resource_id_base |-> 2097152,
     resource_id_mask |-> 2097151, motion_buffer_size |-> 256,
     vendor |-> VendorText(n), maximum_request_length |-> 65535,
     formats |-> Take(SampleFormats, nf),
     image_byte_order |-> 0, bitmap_bit_order |-> 0,
     bitmap_scanline_unit |-> 32, bitmap_scanline_pad |-> 32,
     min_keycode |-> 8, max_keycode |-> 255]

SampleSetups ==
    {SampleSetup(n, nf, rel) : n \in 0..MaxVendor, nf \in 0..1, rel \in {7, 12101004}}

\* credential entries used for the files of the model
SampleEntries ==
    {XAuthEntry(fam, ad, <<48>>, <<77, 73, 84>>, dt) :
        fam \in {0, 256}, ad \in {<<>>, <<104, 105>>},
        dt \in {<<>>, <<9, 8, 7, 6, 5>>}}

\* the values env::var("DISPLAY") can have
DisplayNames == {<<":", "0">>, <<":", "1">>, <<":", "0", ".", "0">>}

DisplayEnv ==
    {[tag |-> "NotPresent", value |-> <<>>], [tag |-> "NotUnicode", value |-> <<>>]}
    \cup {[tag |-> "Ok", value |-> d] : d \in DisplayNames}

Entry1 == XAuthEntry(256, <<104, 105>>, <<48>>, <<77, 73, 84>>, <<9, 8, 7, 6, 5>>)

Entry2 == XAuthEntry(0, <<>>, <<48>>, <<77>>, <<>>)

\* XAUTHORITY and the file behind it, as the handshake meets them
XauthEnv ==
    {[set |-> FALSE, openable |-> FALSE, file |-> <<>>, ioErrAt |-> NoIoErr],
     [set |-> TRUE, openable |-> FALSE, file |-> <<>>, ioErrAt |-> NoIoErr]}
    \cup {[set |-> TRUE, openable |-> TRUE, file |-> f, ioErrAt |-> NoIoErr] :
            f \in {<<>>, encode_entry(Entry1),
                   encode_entries(<<Entry2, Entry1>>) \o <<0, 1>>,
                   Take(encode_entry(Entry1), 9)}}
    \cup {[set |-> TRUE, openable |-> TRUE, file |-> encode_entry(Entry1),
           ioErrAt |-> 4]}

\* the numbers of bytes one underlying write may accept out of len offered
WriteAccepts(len) == {0, 1, len - 1, len} \cap 0..len

\* the results of one underlying write of `len` bytes
WriteResults(len) ==
    {[tag |-> "Ok", kind |-> "", n |-> c] : c \in WriteAccepts(len)}
    \cup {[tag |-> "Err", kind |-> "BrokenPipe", n |-> 0]}

\* what the server may have sent when a read succeeds
ServerBytes(e) ==
    {<<>>, <<0>>, <<1>>, <<2>>, <<3>>, <<0, 2, 11, 0, 0, 0, 1, 0, 78, 111>>,
     encode_setup(SampleSetup(3, 1, 7), e),
     Take(encode_setup(SampleSetup(3, 1, 7), e), 30)}

\* the results of one underlying read
ReadResults(e, nonblocking) ==
    {[tag |-> "Ok", kind |-> "", bytes |-> b] : b \in ServerBytes(e)}
    \cup {[tag |-> "Err", kind |-> "ConnectionReset", bytes |-> <<>>]}
    \cup IF nonblocking
         THEN {[tag |-> "Err", kind |-> "WouldBlock", bytes |-> <<>>]}
         ELSE {}

---------------------------------------------------------------------------
(* The handshake: Connection::init and its callees, one action per step *)

Running == [state |-> "running", code |-> -1, value |-> ""]

Exited(code) == [state |-> "exited", code |-> code, value |-> ""]

Panicked(msg) == [state |-> "panicked", code |-> 101, value |-> msg]

Returned(v) == [state |-> "returned", code |-> -1, value |-> v]

NoRead == [tag |-> "None", kind |-> "", bytes |-> <<>>, calls |-> 0]

NoResult == [tag |-> "None", err |-> "", decoded |-> FALSE, setup |-> NoLocals]

NoEntries == [tag |-> "None", entries |-> <<>>, opens |-> 0, file_read |-> FALSE]

NoIo == [writes |-> 0, zero_writes |-> 0, reads |-> 0, sleeps |-> 0,
         set_nonblocking |-> 0, set_nonblocking_failed |-> 0]

Idle ==
    /\ conf = NoConf /\ attempts = <<>> /\ stream = NoStream
    /\ xauth_entries = NoEntries /\ sr = <<>> /\ written_count = 0
    /\ wire = <<>> /\ io = NoIo /\ buff = <<>> /\ last_read = NoRead
    /\ r = NoResult /\ proc = Running

Init ==
    /\ pc = "init"
    /\ copy \in {"connection.rs", "main.rs"}
    /\ endian \in {"little", "big"}
    /\ display \in DisplayEnv
    /\ xauthority \in XauthEnv
    /\ Idle
    /\ input = <<>> /\ output = <<>>

\* Connection::init, lines 529-539 : DISPLAY missing or not unicode ends the
\* process with exit(0), otherwise Stream::open / open is entered
Connection_init ==
    /\ pc = "init"
    /\ IF display.tag = "Ok"
       THEN pc' = "open" /\ proc' = proc
       ELSE pc' = "done" /\ proc' = Exited(0)
    /\ UNCHANGED <<copy, endian, display, xauthority, conf, attempts, stream,
                   xauth_entries, sr, written_count, wire, io, buff, last_read, r>>
    /\ UNCHANGED fnVars

\* connect_unix_socket / connect_tcp : Ok(Stream { open: true }) or Err
connect_result(v, ok) ==
    IF ok THEN [ok |-> TRUE, stream |-> NewStream(v)]
    ELSE [ok |-> FALSE, stream |-> NoStream]

\* variant: the TCP connect is made whatever the domain socket gave
open_match_always_tcp(res) == "connect_tcp"

\* the match of open on the domain-socket result, lines 384-387 :
\* `Ok(stream) if stream.open => stream, _ => connect_tcp(..)?`
open_match(res) == IF res.ok /\ res.stream.open THEN "stream" ELSE "connect_tcp"

\* Stream::open / open up to the match on connect_unix_socket
open_connect_unix ==
    /\ pc = "open"
    /\ conf' = parse_conf(display.value)
    /\ \E ok \in BOOLEAN :
          LET res == connect_result("Unix", ok)
          IN  /\ attempts' = Append(attempts,
                                    [via |-> "unix", path |-> conf'.socket_path,
                                     port |-> 0, ok |-> res.ok])
              /\ IF open_match(res) = "stream"
                 THEN /\ stream' = res.stream
                      /\ pc' = IF copy = "connection.rs" THEN "authenticate"
                               ELSE "init_return"
                 ELSE /\ stream' = stream
                      /\ pc' = "connect_tcp"
    /\ UNCHANGED <<copy, endian, display, xauthority, xauth_entries, sr,
                   written_count, wire, io, buff, last_read, r, proc>>
    /\ UNCHANGED fnVars

\* a failed TCP connect: connection.rs connect_tcp returns Err, which `?`
\* hands to the caller of init (lines 417-424, 386, 542); main.rs connect_tcp
\* calls process::exit(0) (lines 73-76)
tcp_failure(cp) == IF cp = "connection.rs" THEN Returned("Err") ELSE Exited(0)

\* the fallback arm `_ => connect_tcp(host, port)?` : connection.rs returns the
\* error to the caller of init, main.rs ends the process inside connect_tcp
open_connect_tcp ==
    /\ pc = "connect_tcp"
    /\ \E ok \in BOOLEAN :
          LET res == connect_result("Tcp", ok)
          IN  /\ attempts' = Append(attempts,
                                    [via |-> "tcp", path |-> <<conf.host>>,
                                     port |-> conf.port, ok |-> res.ok])
              /\ IF res.ok
                 THEN /\ stream' = res.stream
                      /\ pc' = IF copy = "connection.rs" THEN "authenticate"
                               ELSE "init_return"
                      /\ proc' = proc
                 ELSE /\ stream' = stream
                      /\ pc' = "done"
                      /\ proc' = tcp_failure(copy)
    /\ UNCHANGED <<copy, endian, display, xauthority, conf, xauth_entries, sr,
                   written_count, wire, io, buff, last_read, r>>
    /\ UNCHANGED fnVars

\* authenticate, line 467 : XAuthEntry::parse().unwrap()
authenticate_parse ==
    /\ pc = "authenticate"
    /\ xauth_entries' = XAuthEntry_parse(xauthority)
    /\ IF xauth_entries'.tag = "Ok"
       THEN pc' = "build" /\ proc' = proc
       ELSE pc' = "done" /\ proc' = Panicked("unwrap on Err")
    /\ UNCHANGED <<copy, endian, display, xauthority, conf, attempts, stream, sr,
                   written_count, wire, io, buff, last_read, r>>
    /\ UNCHANGED fnVars

\* authenticate, lines 470-476 : xauth_entries[0], new, serialize
authenticate_build ==
    /\ pc = "build"
    /\ IF xauth_entries.entries = <<>>
       THEN /\ pc' = "done" /\ proc' = Panicked("index out of bounds")
            /\ sr' = sr
       ELSE LET s == serialize(ConnSetupRequest_new(xauth_entries.entries[1], endian),
                               endian)
            IN  IF s.tag = "Ok"
                THEN pc' = "write_loop" /\ proc' = proc /\ sr' = s.bytes
                ELSE pc' = "done" /\ proc' = Panicked("unwrap on Err") /\ sr' = sr
    /\ written_count' = 0
    /\ UNCHANGED <<copy, endian, display, xauthority, conf, attempts, stream,
                   xauth_entries, wire, io, buff, last_read, r>>
    /\ UNCHANGED fnVars

\* the slice handed to Stream::write in the loop, line 478 : always &sr
write_offer(payload, count) == payload

\* one iteration of `while written_count < sr.len()`, lines 477-485
authenticate_write ==
    /\ pc = "write_loop"
    /\ written_count < Len(sr)
    /\ LET data == write_offer(sr, written_count)
       IN  \E res \in WriteResults(Len(data)) :
             LET w == Stream_write(stream, res)
             IN  /\ \/ io.writes + 1 < MaxWrites
                    \/ w.tag = "Err"
                    \/ written_count + w.n >= Len(sr)
                 /\ io' = [io EXCEPT !.writes = @ + w.calls,
                                     !.zero_writes = @ + (IF w.tag = "Ok" /\ w.n = 0
                                                          THEN 1 ELSE 0)]
                 /\ IF w.tag = "Ok"
                    THEN /\ written_count' = written_count + w.n
                         /\ wire' = wire \o Take(data, w.n)
                         /\ pc' = pc /\ proc' = proc
                    ELSE /\ written_count' = written_count
                         /\ wire' = wire
                         /\ pc' = "done" /\ proc' = Exited(1)
    /\ UNCHANGED <<copy, endian, display, xauthority, conf, attempts, stream,
                   xauth_entries, sr, buff, last_read, r>>
    /\ UNCHANGED fnVars

\* the loop exit, lines 487-492 : the buffer is allocated and the stream is
\* asked to become non-blocking; the result of that call is dropped
authenticate_set_nonblocking ==
    /\ pc = "write_loop"
    /\ ~(written_count < Len(sr))
    /\ buff' = Zeros(BuffCap)
    /\ \E ok \in BOOLEAN :
          /\ stream' = Stream_set_nonblocking(stream, TRUE, ok)
          /\ io' = [io EXCEPT !.set_nonblocking = @ + 1,
                              !.set_nonblocking_failed = @ + (IF ok THEN 0 ELSE 1)]
    /\ pc' = "read_loop"
    /\ UNCHANGED <<copy, endian, display, xauthority, conf, attempts,
                   xauth_entries, sr, written_count, wire, last_read, r, proc>>
    /\ UNCHANGED fnVars

\* variant: without the WouldBlock arm every error is fatal
read_arm_no_retry(rd) == IF rd.tag = "Ok" THEN "break" ELSE "exit"

\* what the loop does with the result of a read, lines 495-508
read_arm(rd) ==
    IF rd.tag = "Ok" THEN "break"
    ELSE IF rd.kind = "WouldBlock" THEN "sleep"
    ELSE "exit"

\* variant: the loop is left after a WouldBlock as after a timeout
after_read_gives_up(arm) ==
    CASE arm = "break" -> "decode"
      [] OTHER -> "done"

\* where the loop goes after a read: break leaves it for the decode, continue
\* stays, process::exit ends the process
after_read(arm) ==
    CASE arm = "break" -> "decode"
      [] arm = "sleep" -> "read_loop"
      [] OTHER -> "done"

\* one iteration of the read loop, lines 494-509
authenticate_read ==
    /\ pc = "read_loop"
    /\ \E res \in ReadResults(endian, stream.nonblocking) :
          LET rd == Stream_read(stream, res)
              arm == read_arm(rd)
          IN  /\ arm = "sleep" => io.sleeps < MaxWouldBlock
              /\ last_read' = rd
              /\ io' = [io EXCEPT !.reads = @ + rd.calls,
                                  !.sleeps = @ + (IF arm = "sleep" THEN 1 ELSE 0)]
              /\ buff' = IF rd.tag = "Ok"
                         THEN rd.bytes \o Drop(buff, Len(rd.bytes))
                         ELSE buff
              /\ pc' = CASE arm = "break" -> "decode"
                         [] arm = "sleep" -> "read_loop"
                         [] OTHER -> "done"
              /\ proc' = IF arm = "exit" THEN Exited(1) ELSE proc
    /\ UNCHANGED <<copy, endian, display, xauthority, conf, attempts, stream,
                   xauth_entries, sr, written_count, wire, r>>
    /\ UNCHANGED fnVars

\* authenticate, lines 514-524 : r = parse_into(&buff); r is not used
authenticate_decode ==
    /\ pc = "decode"
    /\ r' = parse_into(buff, endian)
    /\ IF r'.tag = "Panic"
       THEN pc' = "done" /\ proc' = Panicked(r'.err)
       ELSE pc' = "init_return" /\ proc' = proc
    /\ UNCHANGED <<copy, endian, display, xauthority, conf, attempts, stream,
                   xauth_entries, sr, written_count, wire, io, buff, last_read>>
    /\ UNCHANGED fnVars

\* Connection::init, line 548 (main.rs line 123) : Ok(Connection { stream })
Connection_init_return ==
    /\ pc = "init_return"
    /\ pc' = "done"
    /\ proc' = Returned("Ok")
    /\ UNCHANGED <<copy, endian, display, xauthority, conf, attempts, stream,
                   xauth_entries, sr, written_count, wire, io, buff, last_read, r>>
    /\ UNCHANGED fnVars

\* main.rs, lines 127-138 : Manager::init drops the result of Connection::init
\* and main returns, which ends the process with exit code 0
main_return ==
    /\ pc = "done"
    /\ copy = "main.rs"
    /\ proc.state = "returned"
    /\ proc' = Exited(0)
    /\ UNCHANGED <<pc, copy, endian, display, xauthority, conf, attempts, stream,
                   xauth_entries, sr, written_count, wire, io, buff, last_read, r>>
    /\ UNCHANGED fnVars

Next ==
    \/ Connection_init
    \/ open_connect_unix
    \/ open_connect_tcp
    \/ authenticate_parse
    \/ authenticate_build
    \/ authenticate_write
    \/ authenticate_set_nonblocking
    \/ authenticate_read
    \/ authenticate_decode
    \/ Connection_init_return
    \/ main_return

Spec == Init /\ [][Next]_vars

TypeOK ==
    /\ pc \in {"init", "open", "connect_tcp", "authenticate", "build", "write_loop",
               "read_loop", "decode", "init_return", "done"}
    /\ written_count \in Nat
    /\ proc.state \in {"running", "returned", "exited", "panicked"}

---------------------------------------------------------------------------
(* Direct calls of ConnSetup::parse_into on response buffers *)

ShortBytes == {0, 1, 2, 3, 255}

ShortBuffers ==
    {<<>>} \cup {<<a>> : a \in ShortBytes} \cup {<<a, b>> : a, b \in ShortBytes}

\* status-1 responses followed by a well-formed setup record
WellFormedResponses(e) == {encode_setup(f, e) : f \in SampleSetups}

\* the same buffers under another status byte
OtherStatusResponses(e) ==
    {<<b>> \o Tail(w) : b \in {0, 2, 3, 255}, w \in WellFormedResponses(e)}

\* status-1 responses cut short
TruncatedResponses(e) ==
    LET w == encode_setup(SampleSetup(3, 1, 7), e)
    IN  {Take(w, k) : k \in 1..(Len(w) - 1)}

ResponseBuffers(e) ==
    ShortBuffers \cup WellFormedResponses(e) \cup OtherStatusResponses(e)
    \cup TruncatedResponses(e)

InitParseInto ==
    /\ pc = "call"
    /\ copy = "connection.rs"
    /\ endian \in {"little", "big"}
    /\ display = [tag |-> "NotPresent", value |-> <<>>]
    /\ xauthority = [set |-> FALSE, openable |-> FALSE, file |-> <<>>,
                     ioErrAt |-> NoIoErr]
    /\ Idle
    /\ input \in ResponseBuffers(endian)
    /\ output = NoResult

\* ConnSetup::parse_into(&input)
call_parse_into ==
    /\ pc = "call"
    /\ output' = parse_into(input, endian)
    /\ pc' = "return"
    /\ UNCHANGED <<copy, endian, display, xauthority, conf, attempts, stream,
                   xauth_entries, sr, written_count, wire, io, buff, last_read, r,
                   proc, input>>

NextParseInto == call_parse_into

SpecParseInto == InitParseInto /\ [][NextParseInto]_vars

---------------------------------------------------------------------------
(* Direct calls of XAuthEntry::parse on credential files *)

TrailBytes == {0, 1, 255}

\* byte strings too short to hold a record
ShortTrails ==
    UNION {[1..n -> TrailBytes] : n \in 0..MaxTrail}

\* a record that stops before its end
CutRecords == {Take(encode_entry(Entry1), k) : k \in 1..(Len(encode_entry(Entry1)) - 1)}

Trails == ShortTrails \cup CutRecords

\* the files of exactly K records, K <= MaxRecords
RecordLists == UNION {[1..k -> SampleEntries] : k \in 0..MaxRecords}

\* the environments of a call: XAUTHORITY set and the file readable, set and the
\* file not openable, or unset (whatever file may lie around)
XauthCall(st, op, es, t) ==
    [xa |-> [set |-> st, openable |-> op, file |-> encode_entries(es) \o t,
             ioErrAt |-> NoIoErr],
     entries |-> es, trail |-> t]

XauthCalls ==
    {XauthCall(TRUE, TRUE, es, t) : es \in RecordLists, t \in Trails}
    \cup {XauthCall(st, op, es, <<>>) :
             st \in BOOLEAN, op \in BOOLEAN, es \in {<<>>, <<Entry1>>, <<Entry2, Entry1>>}}

InitXAuth ==
    /\ pc = "call"
    /\ copy = "connection.rs"
    /\ endian = "little"
    /\ display = [tag |-> "NotPresent", value |-> <<>>]
    /\ input \in XauthCalls
    /\ xauthority = input.xa
    /\ Idle
    /\ output = NoEntries

\* XAuthEntry::parse()
call_xauth_parse ==
    /\ pc = "call"
    /\ output' = XAuthEntry_parse(xauthority)
    /\ pc' = "return"
    /\ UNCHANGED <<copy, endian, display, xauthority, conf, attempts, stream,
                   xauth_entries, sr, written_count, wire, io, buff, last_read, r,
                   proc, input>>

NextXAuth == call_xauth_parse

SpecXAuth == InitXAuth /\ [][NextXAuth]_vars

---------------------------------------------------------------------------
(* Properties *)

\* the outcome the status byte alone stands for
StatusOutcome(bytes) ==
    IF bytes = <<>> THEN "InvalidResponseFromServer"
    ELSE CASE bytes[1] = 0 -> "ConnectionRefused"
           [] bytes[1] = 2 -> "FurtherAuthenticationRequired"
           [] OTHER -> "InvalidResponseFromServer"

\* C1: parse_into on a buffer that is empty or whose first byte is not 1
\* returns Err: ConnectionRefused for 0, FurtherAuthenticationRequired for 2,
\* InvalidResponseFromServer otherwise, and does not decode the rest.
C1_StatusDispatch ==
    (pc = "return" /\ (input = <<>> \/ input[1] # 1))
        => /\ output.tag = "Err"
           /\ output.err = StatusOutcome(input)
           /\ ~output.decoded
           /\ output.setup = NoLocals

\* a refused response with a body behind the status byte has been dispatched
C1_Witness ==
    /\ pc = "return" /\ Len(input) > 40 /\ input[1] = 0
    /\ output.err = "ConnectionRefused"

\* the fields a decoded ConnSetup must carry for the setup record f
SetupMatches(setup, f) ==
    /\ DOMAIN setup # {}
    /\ setup["protocol_major_version"] = f.protocol_major_version
    /\ setup["protocol_minor_version"] = f.protocol_minor_version
    /\ setup["release_number"] = f.release_number
    /\ setup["vendor"] = from_utf8_lossy(f.vendor)
    /\ setup["number_of_formats"] = Len(f.formats)

\* C2: parse_into on a status-1 buffer followed by a well-formed setup record
\* returns Ok with a ConnSetup whose fields are the encoded values.
C2_EstablishedDecoded ==
    \A f \in SampleSetups :
        (pc = "return" /\ input = encode_setup(f, endian))
            => output.tag = "Ok" /\ SetupMatches(output.setup, f)

\* C3: Connection::init of connection.rs returns Ok(Connection) only when the
\* response was decoded as status 1 into a ConnSetup.
C3_OkOnlyIfEstablished ==
    (copy = "connection.rs" /\ proc = Returned("Ok")) => r.tag = "Ok"

\* C4: when the write loop exits after writes that each accepted at least one
\* byte, the transport received exactly the serialized request and
\* written_count equals its length.
C4_WireIsPayload ==
    (pc = "read_loop" /\ io.zero_writes = 0)
        => wire = sr /\ written_count = Len(sr)

\* C5: in the read loop a WouldBlock result makes the driver sleep and stay in
\* the loop without decoding; any other error ends the process with no further
\* read and no decode; only a successful read leads to decoding.
C5_ReadLoopArms ==
    [][ /\ (pc = "read_loop" /\ last_read'.tag = "Err" /\ last_read'.kind = "WouldBlock")
            => /\ pc' = "read_loop" /\ proc' = proc /\ r' = NoResult
               /\ io'.sleeps = io.sleeps + 1
        /\ (pc = "read_loop" /\ last_read'.tag = "Err" /\ last_read'.kind # "WouldBlock")
            => pc' = "done" /\ proc' = Exited(1) /\ r' = NoResult
        /\ (pc = "read_loop" /\ last_read'.tag = "Ok") => pc' = "decode"
        /\ pc' = "decode" => (pc = "read_loop" /\ last_read'.tag = "Ok")
        /\ r' # r => (pc = "decode" /\ last_read.tag = "Ok")
        /\ proc.state = "exited" => (io'.reads = io.reads /\ r' = r)
      ]_vars

\* the driver slept on WouldBlock, read again, and the successful read is
\* about to be decoded
C5_Witness ==
    pc = "decode" /\ io.sleeps = MaxWouldBlock /\ io.reads = io.sleeps + 1
    /\ last_read.tag = "Ok"

\* open has handed a result to its caller (or ended the process)
OpenReturned == attempts # <<>> /\ pc \notin {"open", "connect_tcp"}

\* C6: open tries the domain socket first and once, TCP at most once and only
\* after the domain socket failed, on 127.0.0.1:(6000 + display number); after
\* a failed domain-socket attempt it gives no result before the TCP attempt.
C6_UnixThenTcp ==
    /\ Len(attempts) <= 2
    /\ \A i \in 1..Len(attempts) : attempts[i].via = <<"unix", "tcp">>[i]
    /\ Len(attempts) = 2
        => /\ ~attempts[1].ok
           /\ attempts[2].path = <<"127.0.0.1">>
           /\ attempts[2].port = 6000 + conf.display_number
    /\ (OpenReturned /\ ~attempts[1].ok) => Len(attempts) = 2
    /\ (pc \notin {"init", "open"} /\ display.tag = "Ok") => attempts # <<>>

\* the domain socket failed and open returned a TCP stream
C6_Witness ==
    /\ OpenReturned /\ Len(attempts) = 2 /\ ~attempts[1].ok /\ attempts[2].ok
    /\ stream.variants = "Tcp" /\ attempts[2].port = 6001

\* C7: when both connect attempts fail, open returns an error to its caller
\* and the process is not ended inside open, in connection.rs and in main.rs.
C7_BothFailReturnsErr ==
    (Len(attempts) = 2 /\ ~attempts[1].ok /\ ~attempts[2].ok)
        => proc = Returned("Err")

\* C8: with an empty list of credential entries the handshake fails without
\* crashing and without writing a byte.
C8_NoCredentialsFails ==
    (pc = "done" /\ xauth_entries.tag = "Ok" /\ xauth_entries.entries = <<>>)
        => proc.state # "panicked" /\ wire = <<>> /\ io.writes = 0

\* C9: parse of a readable file of K well-formed records followed by bytes that
\* do not form a record returns Ok with exactly those K entries in file order.
C9_RecordsThenGarbage ==
    (pc = "return" /\ input.xa.set /\ input.xa.openable)
        => output.tag = "Ok" /\ output.entries = input.entries

\* two records followed by a record cut short have been parsed
C9_Witness ==
    /\ pc = "return" /\ input.xa.set /\ input.xa.openable
    /\ Len(input.entries) = 2 /\ Len(input.trail) > 10
    /\ input.entries[1] # input.entries[2]
    /\ Len(output.entries) = 2

\* C10: with XAUTHORITY unset parse returns Err, not an empty list, and no
\* file is opened or read.
C10_UnsetIsError ==
    (pc = "return" /\ ~input.xa.set)
        => /\ output.tag = "Err" /\ output.opens = 0 /\ ~output.file_read

\* XAUTHORITY was unset while a readable file with a record existed
C10_Witness ==
    /\ pc = "return" /\ ~input.xa.set /\ input.xa.openable
    /\ input.entries # <<>> /\ output.tag = "Err"

---------------------------------------------------------------------------
(* Direct calls of ConnSetupRequest::serialize *)

\* longest authorization name and data drawn for a request (besides the
\* literal cookie record and the longest lengths a 16-bit prefix allows)
MaxAuthLen == 6

\* a name of n letters and a cookie of n bytes
NameOf(n) == [i \in 1..n |-> 65 + (i % 26)]

DataOf(n) == [i \in 1..n |-> (37 * i) % 256]

\* "MIT-MAGIC-COOKIE-1"
MitMagicCookie1 ==
    <<77, 73, 84, 45, 77, 65, 71, 73, 67, 45, 67, 79, 79, 75, 73, 69, 45, 49>>

\* the record family=0, address empty, display number "0",
\* name MIT-MAGIC-COOKIE-1, 16 bytes of data
CookieEntry == XAuthEntry(0, <<>>, <<48>>, MitMagicCookie1, DataOf(16))

\* the longest field a 16-bit length prefix of the authority file can announce
MaxFieldLen == 65535

SerializeEntries ==
    {XAuthEntry(256, <<104>>, <<48>>, NameOf(n), DataOf(d)) :
        n \in 0..MaxAuthLen, d \in 0..MaxAuthLen}
    \cup {CookieEntry}
    \cup {XAuthEntry(0, <<>>, <<48>>, NameOf(n), DataOf(d)) :
            n \in {1, MaxFieldLen}, d \in {2, MaxFieldLen}}

IdleEnv ==
    /\ copy = "connection.rs"
    /\ display = [tag |-> "NotPresent", value |-> <<>>]
    /\ xauthority = [set |-> FALSE, openable |-> FALSE, file |-> <<>>,
                     ioErrAt |-> NoIoErr]
    /\ Idle

NoPayload == [tag |-> "None", bytes |-> <<>>]

InitSerialize ==
    /\ pc = "call"
    /\ endian \in {"little", "big"}
    /\ IdleEnv
    /\ input \in SerializeEntries
    /\ output = NoPayload

\* ConnSetupRequest::new(input).serialize()
call_serialize ==
    /\ pc = "call"
    /\ output' = serialize(ConnSetupRequest_new(input, endian), endian)
    /\ pc' = "return"
    /\ UNCHANGED <<copy, endian, display, xauthority, conf, attempts, stream,
                   xauth_entries, sr, written_count, wire, io, buff, last_read, r,
                   proc, input>>

NextSerialize == call_serialize

SpecSerialize == InitSerialize /\ [][NextSerialize]_vars

\* pad(X) of the wire layout for a field of X bytes that starts on a boundary
Pad4(x) == (4 - (x % 4)) % 4

\* C11: the serialized request is 12 + N + pad(N) + D + pad(D) bytes long,
\* a multiple of 4, for every name length N and data length D.
C11_LengthAligned ==
    pc = "return"
        => LET n == Len(input.authorization_protocol_name)
               d == Len(input.authorization_protocol_data)
           IN  /\ output.tag = "Ok"
               /\ Len(output.bytes) % 4 = 0
               /\ Len(output.bytes) = 12 + n + Pad4(n) + d + Pad4(d)

\* a request whose name and data both need padding has been serialized
C11_Witness ==
    /\ pc = "return" /\ output.tag = "Ok"
    /\ Len(input.authorization_protocol_name) = 5
    /\ Len(input.authorization_protocol_data) = 3
    /\ Len(output.bytes) = 24

\* the 2-byte field of the request header at 0-based offset off
HeaderField(bytes, off, e) == from_ne_bytes(SubSeq(bytes, off + 1, off + 2), e)

\* the request as laid out with n name bytes and p padding bytes behind them
LaidOut(bytes, entry, n, p, e) ==
    /\ HeaderField(bytes, 6, e) = n
    /\ SubSeq(bytes, 13, 12 + n) = entry.authorization_protocol_name
    /\ SubSeq(bytes, 13 + n, 12 + n + p) = Zeros(p)
    /\ Drop(bytes, 12 + n + p) = entry.authorization_protocol_data

\* C12 as stated: for the cookie record the request is 48 bytes, the name
\* taking 19 bytes followed by 1 padding byte, then the 16 data bytes.
C12_NameTakes19 ==
    (pc = "return" /\ input = CookieEntry)
        => /\ Len(output.bytes) = 48
           /\ LaidOut(output.bytes, input, 19, 1, endian)

\* C12, amended: for the cookie record the request is 48 bytes: the 12-byte
\* header, the 18 bytes of the name followed by 2 padding bytes, and the 16
\* data bytes followed by no padding.
C12_NameTakes18 ==
    (pc = "return" /\ input = CookieEntry)
        => /\ Len(output.bytes) = 48
           /\ LaidOut(output.bytes, input, 18, 2, endian)

\* the cookie record has been serialized
C12_Witness ==
    /\ pc = "return" /\ input = CookieEntry /\ output.tag = "Ok"
    /\ Len(input.authorization_protocol_name) = 18
    /\ Len(input.authorization_protocol_data) = 16

---------------------------------------------------------------------------
(* The request the handshake builds *)

\* a 16-bit value as it lies in memory on the build
HostOrder16(v, e) ==
    IF e = "little" THEN <<v % 256, v \div 256>> ELSE <<v \div 256, v % 256>>

\* the first multiple of 4 at or after off
AlignUp4(off) == 4 * ((off + 3) \div 4)

\* C13: the request starts with the byte-order marker of the host, a zero
\* byte, version 11.0, the name length N, the data length D and two zero
\* bytes; the name lies at [12, 12+N) and the data starts at the first
\* multiple of 4 at or after 12+N; name and data are those of the first
\* entry XAuthEntry::parse returned.
C13_RequestLayout ==
    sr # <<>>
        => LET first == xauth_entries.entries[1]
               name == first.authorization_protocol_name
               data == first.authorization_protocol_data
               off == AlignUp4(12 + Len(name))
           IN  /\ sr[1] = (IF endian = "little" THEN 108 ELSE 66)
               /\ sr[2] = 0
               /\ SubSeq(sr, 3, 4) = HostOrder16(11, endian)
               /\ SubSeq(sr, 5, 6) = HostOrder16(0, endian)
               /\ SubSeq(sr, 7, 8) = HostOrder16(Len(name), endian)
               /\ SubSeq(sr, 9, 10) = HostOrder16(Len(data), endian)
               /\ SubSeq(sr, 11, 12) = <<0, 0>>
               /\ SubSeq(sr, 13, 12 + Len(name)) = name
               /\ SubSeq(sr, off + 1, off + Len(data)) = data

\* the request was built from the first of two entries, its name being padded
C13_Witness ==
    /\ pc = "write_loop" /\ Len(xauth_entries.entries) = 2
    /\ xauth_entries.entries[1] = Entry2 /\ Len(sr) = 16

---------------------------------------------------------------------------
(* Direct calls of deserialize_into::<T> *)

\* longest buffer of which every byte string is drawn
MaxBuf == 5

\* the byte values buffers are drawn from; four of them stay below 2^31
BufBytes == {0, 1, 2, 127}

AllBuffers == UNION {[1..n -> BufBytes] : n \in 0..MaxBuf}

\* size_of::<T>() for T = u8, u16, u32, u64
IntSizes == {1, 2, 4, 8}

\* tails behind a full-width value
BufTails == {<<>>, <<1>>, <<2, 127, 0>>}

\* buffers holding a whole u64 whose value TLC's integers can hold: the four
\* bytes of highest order are zero
WideBuffers(e) ==
    {(IF e = "little" THEN low \o Zeros(4) ELSE Zeros(4) \o low) \o t :
        low \in {<<1, 2, 0, 127>>, <<0, 0, 0, 0>>, <<127, 1, 2, 1>>}, t \in BufTails}

\* buffers one byte short of a u64 and of exactly a u32 plus tails
MidBuffers == {<<2, 1, 0, 127>> \o t : t \in BufTails \cup {<<0, 0, 0>>}}

DeserializeCalls(e) ==
    {[bytes |-> b, size |-> n] : b \in AllBuffers \cup MidBuffers, n \in IntSizes \ {8}}
    \cup {[bytes |-> b, size |-> 8] :
            b \in {x \in AllBuffers \cup MidBuffers : Len(x) < 8} \cup WideBuffers(e)}

NoValue == [tag |-> "None", err |-> "", value |-> 0, rest |-> <<>>]

InitDeserialize ==
    /\ pc = "call"
    /\ endian \in {"little", "big"}
    /\ IdleEnv
    /\ input \in DeserializeCalls(endian)
    /\ output = NoValue

\* deserialize_into::<T>(input.bytes)
call_deserialize_into ==
    /\ pc = "call"
    /\ output' = deserialize_into(input.bytes, input.size, endian)
    /\ pc' = "return"
    /\ UNCHANGED <<copy, endian, display, xauthority, conf, attempts, stream,
                   xauth_entries, sr, written_count, wire, io, buff, last_read, r,
                   proc, input>>

NextDeserialize == call_deserialize_into

SpecDeserialize == InitDeserialize /\ [][NextDeserialize]_vars

RECURSIVE Pow256(_)
Pow256(k) == IF k = 0 THEN 1 ELSE 256 * Pow256(k - 1)

\* the weight of byte i of n in memory order on the build
Weight(i, n, e) == IF e = "little" THEN Pow256(i - 1) ELSE Pow256(n - i)

RECURSIVE WeightedSum(_, _, _, _)
WeightedSum(b, i, n, e) ==
    IF i > n THEN 0
    ELSE (IF b[i] = 0 THEN 0 ELSE b[i] * Weight(i, n, e)) + WeightedSum(b, i + 1, n, e)

\* C14: deserialize_into::<T> on a buffer shorter than size_of(T) returns
\* Err(NotEnoughData); on a longer one it returns the value of the first
\* size_of(T) bytes and exactly the remaining suffix.
C14_FixedWidth ==
    pc = "return"
        => IF Len(input.bytes) < input.size
           THEN output.tag = "Err" /\ output.err = "NotEnoughData"
           ELSE /\ output.tag = "Ok"
                /\ output.value = WeightedSum(input.bytes, 1, input.size, endian)
                /\ output.rest = SubSeq(input.bytes, input.size + 1, Len(input.bytes))
                /\ Len(output.rest) = Len(input.bytes) - input.size

\* a u32 was decoded from a buffer that has bytes behind it
C14_Witness ==
    /\ pc = "return" /\ input.size = 4 /\ Len(input.bytes) = 5
    /\ output.tag = "Ok" /\ output.value > 65535 /\ Len(output.rest) = 1

\* a u64 was asked of a buffer of 7 bytes
C14_WitnessShort ==
    /\ pc = "return" /\ input.size = 8 /\ Len(input.bytes) = 7
    /\ output.tag = "Err"

---------------------------------------------------------------------------
(* Direct calls of deserialize_into_vec::<T> *)

\* longest buffer handed to deserialize_into_vec
MaxVecBuf == 26

\* most records asked for when the total length is representable and small
MaxCount == 3

\* a buffer of n bytes that differ from place to place
PatternBytes(n, step, first) == [i \in 1..n |-> (first + step * i) % 256]

VecBuffers ==
    {PatternBytes(n, st[1], st[2]) :
        n \in 0..MaxVecBuf, st \in {<<1, 0>>, <<7, 24>>, <<37, 200>>}}

\* counts around the largest representable totals of 8- and 4-byte elements
LargeCounts ==
    {UsizeMax \div 8, (UsizeMax \div 8) + 1, UsizeMax \div 4, (UsizeMax \div 4) + 1,
     UsizeMax}

VecCalls ==
    {[T |-> t, bytes |-> b, n |-> k] :
        t \in {"Format", "Screen"}, b \in VecBuffers, k \in (0..MaxCount) \cup LargeCounts}

InitVec ==
    /\ pc = "call"
    /\ endian \in {"little", "big"}
    /\ IdleEnv
    /\ input \in VecCalls
    /\ output = NoValue

\* deserialize_into_vec::<T>(input.bytes, input.n)
call_deserialize_into_vec ==
    /\ pc = "call"
    /\ output' = deserialize_into_vec(input.T, input.bytes, input.n, endian)
    /\ pc' = "return"
    /\ UNCHANGED <<copy, endian, display, xauthority, conf, attempts, stream,
                   xauth_entries, sr, written_count, wire, io, buff, last_read, r,
                   proc, input>>

NextVec == call_deserialize_into_vec

SpecVec == InitVec /\ [][NextVec]_vars

\* n * size does not fit in a usize
Overflows(n, size) == n > UsizeMax \div size

\* C15: when n * element_size overflows usize, deserialize_into_vec returns
\* Err(OverFlow) with no records and no remaining slice, whatever the buffer.
C15_OverflowRefused ==
    (pc = "return" /\ Overflows(input.n, element_size_of(input.T)))
        => /\ output.tag = "Err" /\ output.err = "OverFlow"
           /\ output.value = <<>> /\ output.rest = <<>>

\* a count one past the largest representable total of Format records
C15_Witness ==
    /\ pc = "return" /\ input.T = "Format" /\ input.n = 8192
    /\ Len(input.bytes) = MaxVecBuf /\ output.err = "OverFlow"

\* the i-th record as the buffer spells it
FormatAt(bytes, i) ==
    [depth |-> bytes[8 * (i - 1) + 1], bits_per_pixel |-> bytes[8 * (i - 1) + 2],
     scanline_pad |-> bytes[8 * (i - 1) + 3]]

\* what a call with enough bytes returns
FormatListDecoded ==
    /\ output.tag = "Ok"
    /\ Len(output.value) = input.n
    /\ \A i \in 1..input.n : output.value[i] = FormatAt(input.bytes, i)
    /\ output.rest = SubSeq(input.bytes, 8 * input.n + 1, Len(input.bytes))
    /\ Len(input.bytes) - Len(output.rest) = 8 * input.n

\* a buffer holds fewer than 8 * n bytes; n <= len \div 8 avoids the product
FewerThan8n(bytes, n) == n > Len(bytes) \div 8

\* C16 as stated: fewer than 8n bytes give Err(NotEnoughData) and no list,
\* for every count n; otherwise the n records and bytes[8n..].
C16_FormatListAnyCount ==
    (pc = "return" /\ input.T = "Format")
        => IF FewerThan8n(input.bytes, input.n)
           THEN output.tag = "Err" /\ output.err = "NotEnoughData" /\ output.value = <<>>
           ELSE FormatListDecoded

\* C16: for a count n whose total 8n is representable, fewer than 8n bytes give
\* Err(NotEnoughData) and no list, otherwise exactly n Format records read from
\* bytes 8i, 8i+1, 8i+2 and the remaining slice bytes[8n..]; a count whose
\* total is not representable gives Err(OverFlow).
C16_FormatList ==
    (pc = "return" /\ input.T = "Format")
        => IF Overflows(input.n, 8)
           THEN output.tag = "Err" /\ output.err = "OverFlow" /\ output.value = <<>>
           ELSE IF FewerThan8n(input.bytes, input.n)
           THEN output.tag = "Err" /\ output.err = "NotEnoughData" /\ output.value = <<>>
           ELSE FormatListDecoded

\* three records were decoded and two bytes are left
C16_Witness ==
    /\ pc = "return" /\ input.T = "Format" /\ input.n = 3 /\ Len(input.bytes) = 26
    /\ output.tag = "Ok" /\ Len(output.value) = 3 /\ Len(output.rest) = 2
    /\ output.value[3].scanline_pad # output.value[3].depth

\* one byte short of three records
C16_WitnessShort ==
    /\ pc = "return" /\ input.T = "Format" /\ input.n = 3 /\ Len(input.bytes) = 23
    /\ output.tag = "Err"

---------------------------------------------------------------------------
(* Direct calls of trim_by_padding *)

\* longest slice handed to trim_by_padding
MaxSlice == 8

\* largest consumed length tried below the top of u16
MaxLength == 9

TrimSlices == {PatternBytes(n, st, 1) : n \in 0..MaxSlice, st \in {1, 7}}

TrimCalls ==
    {[slice |-> s, length |-> l, boundary |-> b] :
        s \in TrimSlices, l \in (0..MaxLength) \cup {65533, 65534, 65535}, b \in {4}}

NoSlice == [tag |-> "None", value |-> <<>>]

InitTrim ==
    /\ pc = "call"
    /\ endian \in {"little", "big"}
    /\ IdleEnv
    /\ input \in TrimCalls
    /\ output = NoSlice

\* trim_by_padding(input.slice, input.length, input.boundary)
call_trim_by_padding ==
    /\ pc = "call"
    /\ output' = trim_by_padding(input.slice, input.length, input.boundary)
    /\ pc' = "return"
    /\ UNCHANGED <<copy, endian, display, xauthority, conf, attempts, stream,
                   xauth_entries, sr, written_count, wire, io, buff, last_read, r,
                   proc, input>>

NextTrim == call_trim_by_padding

SpecTrim == InitTrim /\ [][NextTrim]_vars

\* C17: trim_by_padding(slice, length, 4) returns the slice without its first
\* (4 - length mod 4) mod 4 bytes, for every consumed length.
C17_SkipsToBoundary ==
    (pc = "return" /\ input.boundary = 4)
        => /\ output.tag = "Ok"
           /\ output.value = Drop(input.slice, Pad4(input.length))

\* a text of 5 bytes followed by 3 bytes of padding and a field: one byte is
\* dropped where three are due
C17_FailingInput ==
    /\ pc = "return" /\ input.length = 5 /\ Len(input.slice) = 8
    /\ output.tag = "Ok" /\ Len(output.value) = 7

---------------------------------------------------------------------------
(* Direct calls of Stream::write and Stream::read *)

\* every value of the Stream type: a transport and the two flags
StreamStates ==
    {[variants |-> v, open |-> o, nonblocking |-> nb] :
        v \in {"Unix", "Tcp"}, o \in BOOLEAN, nb \in BOOLEAN}

\* longest payload handed to Stream::write
MaxPayload == 3

Payloads == {PatternBytes(n, 1, 0) : n \in 0..MaxPayload}

\* a call of write with the result the socket would give, or a call of read
StreamCalls(e, nb) ==
    {[op |-> "write", data |-> d, res |-> w] :
        d \in Payloads, w \in WriteResults(MaxPayload)}
    \cup {[op |-> "read", data |-> <<>>, res |-> x] : x \in ReadResults(e, nb)}

NoCall == [tag |-> "None", kind |-> "", calls |-> 0]

InitStream ==
    /\ pc = "call"
    /\ copy = "connection.rs"
    /\ endian \in {"little", "big"}
    /\ display = [tag |-> "NotPresent", value |-> <<>>]
    /\ xauthority = [set |-> FALSE, openable |-> FALSE, file |-> <<>>,
                     ioErrAt |-> NoIoErr]
    /\ conf = NoConf /\ attempts = <<>>
    /\ stream \in StreamStates
    /\ xauth_entries = NoEntries /\ sr = <<>> /\ written_count = 0
    /\ wire = <<>> /\ io = NoIo /\ buff = Zeros(BuffCap) /\ last_read = NoRead
    /\ r = NoResult /\ proc = Running
    /\ input \in {c \in StreamCalls(endian, stream.nonblocking) :
                    c.op = "write" /\ c.res.tag = "Ok" => c.res.n <= Len(c.data)}
    /\ output = NoCall

\* stream.write(input.data): &mut self is only passed on to the socket
call_stream_write ==
    /\ pc = "call" /\ input.op = "write"
    /\ LET w == Stream_write(stream, input.res)
       IN  /\ output' = w
           /\ io' = [io EXCEPT !.writes = @ + w.calls]
           /\ wire' = IF w.tag = "Ok" THEN wire \o Take(input.data, w.n) ELSE wire
    /\ stream' = stream
    /\ pc' = "return"
    /\ UNCHANGED <<copy, endian, display, xauthority, conf, attempts,
                   xauth_entries, sr, written_count, buff, last_read, r, proc, input>>

\* stream.read(&mut buff)
call_stream_read ==
    /\ pc = "call" /\ input.op = "read"
    /\ LET rd == Stream_read(stream, input.res)
       IN  /\ output' = rd
           /\ io' = [io EXCEPT !.reads = @ + rd.calls]
           /\ buff' = IF rd.tag = "Ok"
                      THEN rd.bytes \o Drop(buff, Len(rd.bytes))
                      ELSE buff
    /\ stream' = stream
    /\ pc' = "return"
    /\ UNCHANGED <<copy, endian, display, xauthority, conf, attempts,
                   xauth_entries, sr, written_count, wire, last_read, r, proc, input>>

NextStream == call_stream_write \/ call_stream_read

SpecStream == InitStream /\ [][NextStream]_vars

\* the underlying calls counted so far
IoCalls(c) == c.writes + c.reads

\* C18: write and read on a stream whose open flag is false fail with
\* NotConnected, make no underlying call and leave the stream, the wire and
\* the buffer as they were; on an open stream they make exactly one underlying
\* call of their own kind and return its result.
C18_GuardedIo ==
    [][pc = "call"
        => /\ stream' = stream
           /\ IF ~stream.open
              THEN /\ output'.tag = "Err" /\ output'.kind = "NotConnected"
                   /\ io' = io /\ wire' = wire /\ buff' = buff
              ELSE /\ IoCalls(io') = IoCalls(io) + 1
                   /\ io'.writes = io.writes + (IF input.op = "write" THEN 1 ELSE 0)
                   /\ output'.tag = input.res.tag
                   /\ output'.kind = input.res.kind
                   /\ input.op = "write" => output'.n = input.res.n
                   /\ input.op = "read" => output'.bytes = input.res.bytes]_vars

\* a write of three bytes was refused on a stream that is not open
C18_Witness ==
    /\ pc = "return" /\ ~stream.open /\ input.op = "write" /\ Len(input.data) = 3
    /\ input.res.tag = "Ok" /\ output.kind = "NotConnected" /\ io = NoIo

\* a read on an open stream returned what the socket gave
C18_WitnessOpen ==
    /\ pc = "return" /\ stream.open /\ input.op = "read"
    /\ output.tag = "Ok" /\ Len(output.bytes) > 1 /\ io.reads = 1

---------------------------------------------------------------------------
(* Direct calls of parse_conf *)

\* longest display specifier tried
MaxDisplay == 4

\* the characters display specifiers are made of
DisplayChars == {":", "0", "1", "2", "5", "6", "9", "+", "."}

DisplaySpecifiers == UNION {[1..n -> DisplayChars] : n \in 0..MaxDisplay}

InitConf ==
    /\ pc = "call"
    /\ endian \in {"little", "big"}
    /\ IdleEnv
    /\ input \in DisplaySpecifiers
    /\ output = NoConf

\* parse_conf(input)
call_parse_conf ==
    /\ pc = "call"
    /\ output' = parse_conf(input)
    /\ pc' = "return"
    /\ UNCHANGED <<copy, endian, display, xauthority, conf, attempts, stream,
                   xauth_entries, sr, written_count, wire, io, buff, last_read, r,
                   proc, input>>

NextConf == call_parse_conf

SpecConf == InitConf /\ [][NextConf]_vars

\* the decimal text of a number, as format!("{}", n) writes it
RECURSIVE ToDecimal(_)
ToDecimal(n) ==
    IF n < 10 THEN <<Digits[n + 1]>>
    ELSE Append(ToDecimal(n \div 10), Digits[(n % 10) + 1])

\* the text after the leading ':' spells a display number k
Spells(text, k) == text = ToDecimal(k)

\* C19: parse_conf derives one display number n, the number spelled after the
\* leading ':' or 0, and both endpoints refer to it: the port is 6000 + n,
\* within 6000..6255, and the socket path is "/tmp/.X11-unix/X" followed by n.
C19_SameNumber ==
    pc = "return"
        => LET n == output.display_number
           IN  /\ n \in 0..255
               /\ \A k \in 0..255 : Spells(trim_start_matches(input), k) => n = k
               /\ output.port = BasePort + n
               /\ output.port \in 6000..6255
               /\ output.socket_path = SocketPrefix \o ToDecimal(n)

\* the port alone follows the number
C19_PortFollowsNumber ==
    pc = "return"
        => /\ output.port = BasePort + output.display_number
           /\ output.port \in 6000..6255

\* DISPLAY=:0.0 gives port 6000 and a path that ends in "0.0"
C19_FailingInput ==
    /\ pc = "return" /\ input = <<":", "0", ".", "0">>
    /\ output.display_number = 0 /\ output.port = 6000
    /\ output.socket_path = SocketPrefix \o <<"0", ".", "0">>

---------------------------------------------------------------------------
(* The process boundary of the handshake *)

\* the handshake has failed: no usable display specifier, both connection
\* attempts failed, a failed write, a read error other than WouldBlock, or a
\* response that is not a decoded setup
HandshakeFailed ==
    \/ display.tag # "Ok"
    \/ Len(attempts) = 2 /\ ~attempts[1].ok /\ ~attempts[2].ok
    \/ last_read.tag = "Err" /\ last_read.kind # "WouldBlock"
    \/ r.tag = "Err"

\* the handshake has succeeded: a setup response was decoded
HandshakeSucceeded == r.tag = "Ok" /\ r.decoded

\* C20: after a failed handshake the process does not end with exit code 0 and
\* no success is reported to the caller; exit code 0 is produced only after a
\* fully successful handshake.
C20_NonZeroOnFailure ==
    /\ (pc = "done" /\ HandshakeFailed)
        => /\ ~(proc.state = "exited" /\ proc.code = 0)
           /\ proc # Returned("Ok")
    /\ (proc.state = "exited" /\ proc.code = 0) => HandshakeSucceeded

\* DISPLAY is not set and the process has ended with exit code 0
C20_FailingInput ==
    /\ pc = "done" /\ display.tag = "NotPresent" /\ proc = Exited(0)

\* the server refused the connection and Connection::init returned Ok
C20_RefusedReturnsOk ==
    /\ pc = "done" /\ copy = "connection.rs" /\ r.tag = "Err"
    /\ r.err = "ConnectionRefused" /\ proc = Returned("Ok")

---------------------------------------------------------------------------
(* Status-1 responses that are too short for a setup record *)

\* the buffer starts with status 1 and ends inside the fixed header of 40 bytes
\* or inside the vendor text announced at offset 24
EndsInsideSetup(bytes, e) ==
    /\ bytes # <<>> /\ bytes[1] = 1
    /\ \/ Len(bytes) < 40
       \/ Len(bytes) < 40 + from_ne_bytes(SubSeq(bytes, 25, 26), e)

\* C21: parse_into on a buffer whose first byte is 1 and whose remainder is too
\* short for a ConnSetup record returns Err(ConnectionNotEstablished); it does
\* not panic and does not expose a ParseError.
C21_ShortIsNotEstablished ==
    (pc = "return" /\ EndsInsideSetup(input, endian))
        => output.tag = "Err" /\ output.err = "ConnectionNotEstablished"

\* the single byte 1: the slice &rest[1..] of the empty rest panics
C21_FailingInput ==
    /\ pc = "return" /\ input = <<1>> /\ output.tag = "Panic"

\* a buffer that ends inside the header: from_bytes returns Err(NotEnoughData)
\* and unwrap panics on it
C21_UnwrapOnErr ==
    /\ pc = "return" /\ EndsInsideSetup(input, endian) /\ Len(input) \in 3..39
    /\ output.tag = "Panic" /\ output.err = "unwrap on Err"

---------------------------------------------------------------------------
(* Which bytes the decoded outcome rests on *)

\* the bytes the last successful read put into the buffer
Received == IF last_read.tag = "Ok" THEN last_read.bytes ELSE <<>>

\* the response was classified as one of the protocol's outcomes
ProtocolOutcome ==
    \/ r.tag = "Ok"
    \/ r.decoded
    \/ r.tag = "Err" /\ r.err \in {"ConnectionRefused", "FurtherAuthenticationRequired"}

\* C22: the Refused outcome arises only if the read returned at least one byte
\* and the first received byte is 0; a read of 0 bytes is never classified as
\* Refused, AuthRequired or Established, and an Established decode rests only on
\* received bytes, not on the zero-initialised rest of the buffer.
C22_OutcomeFromReceived ==
    /\ (r.tag = "Err" /\ r.err = "ConnectionRefused")
        => (Len(Received) >= 1 /\ Received[1] = 0)
    /\ (r.tag # "None" /\ Received = <<>>) => ~ProtocolOutcome
    /\ (r.tag # "None" /\ r.decoded) => Len(Received) >= 40

\* the peer closed: the read returned 0 bytes and the outcome is Refused
C22_FailingInput ==
    /\ last_read.tag = "Ok" /\ last_read.bytes = <<>>
    /\ r.tag = "Err" /\ r.err = "ConnectionRefused"

\* one status byte 1 was received and the zero bytes behind it were decoded
C22_DecodedZeros ==
    /\ last_read.tag = "Ok" /\ last_read.bytes = <<1>> /\ r.decoded

---------------------------------------------------------------------------
(* The order of the steps of the handshake *)

\* the serialized request appears on the wire as one contiguous run
RequestOnWire ==
    /\ sr # <<>>
    /\ \E k \in 0..(Len(wire) - Len(sr)) : SubSeq(wire, k + 1, k + Len(sr)) = sr

\* the steps in the order the code takes them; each rests on the one before
StepOrder ==
    /\ xauth_entries.tag # "None" => stream.open
    /\ sr # <<>> => xauth_entries.tag = "Ok"
    /\ io.writes > 0 => (stream.open /\ sr # <<>>)
    /\ io.set_nonblocking > 0 => written_count >= Len(sr)
    /\ io.reads > 0 => (io.set_nonblocking = 1 /\ written_count >= Len(sr))
    /\ r.tag # "None" => (last_read.tag = "Ok" /\ io.reads > 0)

\* the response is decoded at most once and nothing is written once reads began
StepsNotRepeated ==
    [][/\ r' # r => r.tag = "None"
       /\ io.reads > 0 => io'.writes = io.writes
       /\ r.tag # "None" => io' = io]_vars

\* C23: the transport is opened before authentication starts, no byte is
\* written before the credentials were parsed and the request built, no read
\* is issued before the whole request was written, and the response is decoded
\* at most once, only after a successful read.
C23_HandshakeOrder ==
    /\ [](StepOrder /\ (io.reads > 0 => RequestOnWire))
    /\ StepsNotRepeated

\* the order of the steps alone, with "written" as the write loop counts it
C23_StepOrderOnly == []StepOrder /\ StepsNotRepeated

\* the first write accepted all but the last byte, the second one byte of the
\* payload offered again from its start; a read followed
C23_FailingInput ==
    /\ io.reads > 0 /\ io.writes = 2 /\ written_count = Len(sr)
    /\ Len(wire) = Len(sr) /\ wire # sr /\ ~RequestOnWire

---------------------------------------------------------------------------
(* The blocking mode of the transport during the handshake *)

\* C24: every write of the request is made in blocking mode and every read of
\* the response in non-blocking mode; set_nonblocking(true) is called exactly
\* once, after the write loop and before the first read, and no read is issued
\* on a stream that is still blocking.
C24_ModeSwitch ==
    /\ [](/\ io.set_nonblocking <= 1
          /\ io.set_nonblocking = 1 => written_count >= Len(sr)
          /\ io.reads > 0 => (io.set_nonblocking = 1 /\ stream.nonblocking))
    /\ [][/\ io'.writes > io.writes => (~stream.nonblocking /\ io.set_nonblocking = 0)
          /\ io'.set_nonblocking > io.set_nonblocking => io.reads = 0]_vars

\* set_nonblocking(true) failed and a read was made on the blocking stream
C24_FailingInput ==
    /\ io.set_nonblocking_failed = 1 /\ ~stream.nonblocking /\ io.reads > 0

\* the calls alone: one set_nonblocking(true) between the writes and the reads
C24_OneCallBetween ==
    /\ [](/\ io.set_nonblocking <= 1
          /\ io.set_nonblocking = 1 => written_count >= Len(sr)
          /\ io.reads > 0 => io.set_nonblocking = 1)
    /\ [][/\ io'.writes > io.writes => (~stream.nonblocking /\ io.set_nonblocking = 0)
          /\ io'.set_nonblocking > io.set_nonblocking => io.reads = 0]_vars

---------------------------------------------------------------------------
(* The wait for the response, with the transport's answers fixed in advance *)

\* the sleeps counted before the count stops growing
MaxSleepsCounted == MaxWouldBlock + 2

WouldBlock == [tag |-> "Err", kind |-> "WouldBlock", bytes |-> <<>>]

\* what the transport will do: report WouldBlock forever, or `left` times and
\* then give `final`, a successful read or another error
ReadSchedules(e) ==
    {[forever |-> TRUE, left |-> 0, final |-> WouldBlock]}
    \cup {[forever |-> FALSE, left |-> k, final |-> f] :
            k \in 0..MaxWouldBlock, f \in ReadResults(e, FALSE)}

\* the handshake at line 494: the request of Entry1 is written, the buffer is
\* allocated and the stream is non-blocking
InitWait ==
    /\ pc = "read_loop"
    /\ copy = "connection.rs"
    /\ endian \in {"little", "big"}
    /\ display = [tag |-> "Ok", value |-> <<":", "0">>]
    /\ xauthority \in {x \in XauthEnv : x.set /\ x.openable /\ x.ioErrAt = NoIoErr
                                        /\ x.file = encode_entry(Entry1)}
    /\ conf = parse_conf(display.value)
    /\ attempts = << [via |-> "unix", path |-> conf.socket_path, port |-> 0,
                      ok |-> TRUE] >>
    /\ stream = [NewStream("Unix") EXCEPT !.nonblocking = TRUE]
    /\ xauth_entries = XAuthEntry_parse(xauthority)
    /\ sr = serialize(ConnSetupRequest_new(Entry1, endian), endian).bytes
    /\ written_count = Len(sr)
    /\ wire = sr
    /\ io = [NoIo EXCEPT !.writes = 1, !.set_nonblocking = 1]
    /\ buff = Zeros(BuffCap)
    /\ last_read = NoRead
    /\ r = NoResult
    /\ proc = Running
    /\ input \in ReadSchedules(endian)
    /\ output = <<>>

\* the result the transport gives to the next read
scheduled_read == IF input.forever \/ input.left > 0 THEN WouldBlock ELSE input.final

\* one iteration of the read loop, lines 494-509, on the scheduled result
wait_read ==
    /\ pc = "read_loop"
    /\ LET rd == Stream_read(stream, scheduled_read)
           arm == read_arm(rd)
       IN  /\ last_read' = rd
           /\ io' = [io EXCEPT !.reads = Min(@ + rd.calls, MaxSleepsCounted + 1),
                               !.sleeps = Min(@ + (IF arm = "sleep" THEN 1 ELSE 0),
                                              MaxSleepsCounted)]
           /\ buff' = IF rd.tag = "Ok"
                      THEN rd.bytes \o Drop(buff, Len(rd.bytes))
                      ELSE buff
           /\ pc' = after_read(arm)
           /\ proc' = IF arm = "exit" THEN Exited(1) ELSE proc
    /\ input' = IF input.left > 0 THEN [input EXCEPT !.left = @ - 1] ELSE input
    /\ UNCHANGED <<copy, endian, display, xauthority, conf, attempts, stream,
                   xauth_entries, sr, written_count, wire, r, output>>

NextWait == wait_read \/ authenticate_decode \/ Connection_init_return

\* parse_into returns or panics on every buffer, so the decode step is enabled
\* exactly when pc = "decode" and always leaves it: this is the weak fairness
\* of authenticate_decode, written by its enabling condition
DecodeIsTaken == []<>(pc # "decode")

\* the driver is a single thread that keeps running: a step that can be taken
\* is taken
SpecWait ==
    /\ InitWait /\ [][NextWait]_vars
    /\ WF_vars(wait_read) /\ WF_vars(Connection_init_return) /\ DecodeIsTaken

AwaitingResponse == pc = "read_loop"

\* ResponseDecoded or Failed: the response was decoded or the process ended
Terminal == pc \in {"init_return", "done"} /\ (r.tag # "None" \/ proc.state = "exited")

\* C25: while every read reports WouldBlock the driver stays in the read loop
\* forever, with no timeout and no bound on the retries; when the transport
\* eventually gives a successful read or another error the driver eventually
\* leaves the loop and reaches a terminal state.
C25_WaitIsLive ==
    /\ [](input.forever => (AwaitingResponse /\ proc = Running /\ r = NoResult))
    /\ (~input.forever) ~> Terminal

\* the driver is still waiting after more retries than any finite schedule has
C25_Witness ==
    /\ input.forever /\ AwaitingResponse /\ io.sleeps = MaxSleepsCounted
    /\ last_read.kind = "WouldBlock"

\* after two retries the response arrived and was decoded
C25_WitnessArrived ==
    /\ ~input.forever /\ io.sleeps = 2 /\ Terminal /\ r.tag = "Err"
    /\ r.err = "FurtherAuthenticationRequired"

---------------------------------------------------------------------------
(* Direct calls of XAuthEntry::parse on files that fail while being read *)

\* the files of up to MaxRecords records
FaultyLists == UNION {[1..k -> {Entry1, Entry2}] : k \in 0..MaxRecords}

\* a readable file of the records `es` that ends after `at` bytes (cut: end of
\* file) or whose byte at offset `at` cannot be read (fault: an I/O error)
FaultyCall(es, how, at) ==
    [xa |-> [set |-> TRUE, openable |-> TRUE,
             file |-> IF how = "cut"
                      THEN Take(encode_entries(es), Min(at, Len(encode_entries(es))))
                      ELSE encode_entries(es),
             ioErrAt |-> IF how = "cut" THEN NoIoErr ELSE at],
     entries |-> es, how |-> how, at |-> at]

FaultyCalls ==
    {FaultyCall(es, how, at) :
        es \in FaultyLists, how \in {"cut", "fault"}, at \in 0..(2 * MaxRecords * 12)}

InitXAuthFault ==
    /\ pc = "call"
    /\ copy = "connection.rs"
    /\ endian \in {"little", "big"}
    /\ display = [tag |-> "NotPresent", value |-> <<>>]
    /\ input \in {c \in FaultyCalls : c.at <= Len(encode_entries(c.entries))}
    /\ xauthority = input.xa
    /\ Idle
    /\ output = NoEntries

NextXAuthFault == call_xauth_parse

SpecXAuthFault == InitXAuthFault /\ [][NextXAuthFault]_vars

\* how many of the records `es` lie wholly within the first `avail` bytes
RECURSIVE CompleteWithin(_, _)
CompleteWithin(es, avail) ==
    IF es = <<>> \/ Len(encode_entry(Head(es))) > avail THEN 0
    ELSE 1 + CompleteWithin(Tail(es), avail - Len(encode_entry(Head(es))))

\* C26: once the file is open, a read failure on any field, end of file or an
\* I/O error, makes parse return Ok with exactly the entries completed before
\* the failure: never Err and never an entry that is only partly filled.
C26_FailureEndsLoop ==
    pc = "return"
        => /\ output.tag = "Ok"
           /\ output.entries = Take(input.entries, CompleteWithin(input.entries, input.at))

\* an I/O error inside the data field of the second record: one entry returned
C26_Witness ==
    /\ pc = "return" /\ input.how = "fault" /\ input.entries = <<Entry2, Entry1>>
    /\ input.at = Len(encode_entry(Entry2)) + Len(encode_entry(Entry1)) - 2
    /\ output.tag = "Ok" /\ output.entries = <<Entry2>>

---------------------------------------------------------------------------
(* The layout of one credential record in the file *)

\* two bytes at offset `off`, most significant first
Msb16(file, off) == 256 * file[off + 1] + file[off + 2]

\* the `len` bytes behind the 2-byte prefix at offset `off`
FieldAt(file, off) == SubSeq(file, off + 3, off + 2 + Msb16(file, off))

\* the record that starts at offset `off`, field by field
RecordAt(file, off) ==
    LET a == off + 2
        s == a + 2 + Msb16(file, a)
        n == s + 2 + Msb16(file, s)
        d == n + 2 + Msb16(file, n)
    IN  [family |-> Msb16(file, off),
         address |-> FieldAt(file, a),
         display_number |-> FieldAt(file, s),
         authorization_protocol_name |-> FieldAt(file, n),
         authorization_protocol_data |-> FieldAt(file, d)]

\* the bytes a record takes: 10 + A + S + N + D
RecordSize(en) ==
    10 + Len(en.address) + Len(en.display_number)
       + Len(en.authorization_protocol_name) + Len(en.authorization_protocol_data)

\* the offset at which the i-th returned entry starts
RECURSIVE OffsetOf(_, _)
OffsetOf(entries, i) ==
    IF i = 1 THEN 0 ELSE OffsetOf(entries, i - 1) + RecordSize(entries[i - 1])

\* C27: each record is decoded as family, address, display number, auth name,
\* auth data; the family and the four length prefixes are 2 bytes, most
\* significant first, on either host byte order; each field is exactly the
\* `length` bytes behind its prefix and a record takes 10 + A + S + N + D bytes.
C27_RecordLayout ==
    (pc = "return" /\ output.tag = "Ok")
        => \A i \in 1..Len(output.entries) :
              /\ OffsetOf(output.entries, i) + RecordSize(output.entries[i])
                    <= Len(input.xa.file)
              /\ output.entries[i] = RecordAt(input.xa.file, OffsetOf(output.entries, i))

\* two records were decoded; the second has family 256 and starts at offset 12
C27_Witness ==
    /\ pc = "return" /\ input.entries = <<Entry2, Entry1>>
    /\ Len(output.entries) = 2 /\ output.entries[2].family = 256
    /\ OffsetOf(output.entries, 2) = 12
    /\ output.entries[2].authorization_protocol_data = <<9, 8, 7, 6, 5>>

---------------------------------------------------------------------------
(* Direct calls of deserialize_into_string *)

\* longest buffer of which every byte string over TextBytes is drawn
MaxText == 4

\* ASCII, the two bytes of U+00E9, the three of U+20AC, and bytes that are
\* valid nowhere or only as a continuation
TextBytes == {65, 0, 195, 169, 226, 130, 172, 255}

TextBuffers == UNION {[1..n -> TextBytes] : n \in 0..MaxText}

TextCalls ==
    {[bytes |-> b, length |-> l] :
        b \in TextBuffers \cup {<<240, 159, 152, 128, 65>>, <<237, 160, 128>>},
        l \in (0..(MaxText + 1)) \cup {65535}}

NoText == [tag |-> "None", err |-> "", value |-> <<>>, rest |-> <<>>]

InitString ==
    /\ pc = "call"
    /\ endian = "little"
    /\ IdleEnv
    /\ input \in TextCalls
    /\ output = NoText

\* deserialize_into_string(input.bytes, input.length)
call_deserialize_into_string ==
    /\ pc = "call"
    /\ output' = deserialize_into_string(input.bytes, input.length)
    /\ pc' = "return"
    /\ UNCHANGED <<copy, endian, display, xauthority, conf, attempts, stream,
                   xauth_entries, sr, written_count, wire, io, buff, last_read, r,
                   proc, input>>

NextString == call_deserialize_into_string

SpecString == InitString /\ [][NextString]_vars

\* every byte of the slice is ASCII
IsAscii(b) == \A k \in 1..Len(b) : b[k] < 128

\* C28: with fewer than `length` bytes deserialize_into_string returns
\* Err(NotEnoughData); otherwise it returns Ok whatever the bytes are, the text
\* is the decoding of exactly bytes[0..length] (the bytes themselves when they
\* are ASCII, at most one character per byte otherwise) and the rest is exactly
\* bytes[length..], so that the consumed prefix followed by the rest is the input.
C28_LengthPrefixedText ==
    pc = "return"
        => IF Len(input.bytes) < input.length
           THEN output.tag = "Err" /\ output.err = "NotEnoughData"
           ELSE LET prefix == SubSeq(input.bytes, 1, input.length)
                IN  /\ output.tag = "Ok"
                    /\ output.value = from_utf8_lossy(prefix)
                    /\ IsAscii(prefix) => output.value = prefix
                    /\ Len(output.value) <= input.length
                    /\ output.rest = SubSeq(input.bytes, input.length + 1,
                                            Len(input.bytes))
                    /\ prefix \o output.rest = input.bytes

\* a slice cut inside a three-byte sequence was decoded without an error and
\* the byte behind it was left in the rest
C28_Witness ==
    /\ pc = "return" /\ input.bytes = <<65, 226, 130, 172>> /\ input.length = 3
    /\ output.tag = "Ok" /\ output.value = <<65, Replacement>> /\ output.rest = <<172>>

\* the three bytes of U+20AC decode to one character
C28_WitnessEuro ==
    /\ pc = "return" /\ input.bytes = <<226, 130, 172, 65>> /\ input.length = 3
    /\ output.value = <<8364>> /\ output.rest = <<65>>

---------------------------------------------------------------------------
(* What from_bytes takes from a setup response *)

\* a status-1 buffer long enough for its header, vendor text, padding and formats
WholeSetup(bytes, e) ==
    /\ Len(bytes) >= 40 /\ bytes[1] = 1
    /\ LET vl == from_ne_bytes(SubSeq(bytes, 25, 26), e)
       IN  Len(bytes) >= AlignUp4(40 + vl) + 8 * bytes[30]

\* the bytes at offset `off` of width `w` as a number in the build's byte order
NeAt(bytes, off, w, e) == from_ne_bytes(SubSeq(bytes, off + 1, off + w), e)

\* the fixed header as from_bytes has read it, field by field at its offset
HeaderAtOffsets(bytes, l, e) ==
    /\ l["success"] = bytes[1]
    /\ l["protocol_major_version"] = NeAt(bytes, 2, 2, e)
    /\ l["protocol_minor_version"] = NeAt(bytes, 4, 2, e)
    /\ l["ln"] = NeAt(bytes, 6, 2, e)
    /\ l["release_number"] = NeAt(bytes, 8, 4, e)
    /\ l["resource_id_base"] = NeAt(bytes, 12, 4, e)
    /\ l["resource_id_mask"] = NeAt(bytes, 16, 4, e)
    /\ l["motion_buffer_size"] = NeAt(bytes, 20, 4, e)
    /\ l["vendor_length"] = NeAt(bytes, 24, 2, e)
    /\ l["maximum_request_length"] = NeAt(bytes, 26, 2, e)
    /\ l["number_of_screens"] = bytes[29]
    /\ l["number_of_formats"] = bytes[30]
    /\ l["image_byte_order"] = bytes[31]
    /\ l["bitmap_bit_order"] = bytes[32]
    /\ l["bitmap_scanline_unit"] = bytes[33]
    /\ l["bitmap_scanline_pad"] = bytes[34]
    /\ l["min_keycode"] = bytes[35]
    /\ l["max_keycode"] = bytes[36]

\* the vendor text is taken from bytes [40, 40 + vendor_length)
VendorAtOffset(bytes, l) ==
    /\ "vendor" \in DOMAIN l
    /\ l["vendor"] = from_utf8_lossy(SubSeq(bytes, 41, 40 + l["vendor_length"]))

\* the Format records are decoded from offset 40 + vendor_length rounded up to 4
FormatsAtOffset(bytes, l) ==
    /\ "formats" \in DOMAIN l
    /\ LET off == AlignUp4(40 + l["vendor_length"])
       IN  /\ Len(l["formats"]) = l["number_of_formats"]
           /\ \A i \in 1..Len(l["formats"]) :
                 l["formats"][i] = FormatAt(SubSeq(bytes, off + 1, Len(bytes)), i)

\* C29: from_bytes reads the 40 bytes of fixed header in the order of the
\* protocol, takes the vendor text from bytes [40, 40 + vendor_length) and
\* decodes number_of_formats Format records from offset 40 + vendor_length
\* rounded up to the next multiple of 4.
C29_SetupLayout ==
    (pc = "return" /\ WholeSetup(input, endian))
        => LET fb == from_bytes(input, endian)
           IN  /\ HeaderAtOffsets(input, fb.locals, endian)
               /\ VendorAtOffset(input, fb.locals)
               /\ FormatsAtOffset(input, fb.locals)

\* the header and the vendor text alone
C29_HeaderAndVendor ==
    (pc = "return" /\ WholeSetup(input, endian))
        => LET fb == from_bytes(input, endian)
           IN  /\ HeaderAtOffsets(input, fb.locals, endian)
               /\ VendorAtOffset(input, fb.locals)

\* a response with a vendor text of 5 bytes and one Format record: from_bytes
\* stopped behind the vendor text
C29_FailingInput ==
    /\ pc = "return" /\ WholeSetup(input, endian) /\ Len(input) = 56
    /\ input[30] = 1 /\ output.tag = "Panic"
    /\ "formats" \notin DOMAIN from_bytes(input, endian).locals

---------------------------------------------------------------------------
(* The write loop, with the transport's answers fixed in advance *)

\* the calls counted before the counts stop growing
MaxWritesCounted == MaxWrites + 2

\* most writes of zero bytes before the transport accepts or fails
MaxZeroWrites == 2

\* what the transport will do: accept 0 bytes forever, or `zeros` times and
\* then accept everything offered, one byte per call, or fail
WriteSchedules ==
    {[forever |-> TRUE, zeros |-> 0, then |-> "all"]}
    \cup {[forever |-> FALSE, zeros |-> k, then |-> t] :
            k \in 0..MaxZeroWrites, t \in {"all", "one", "err"}}

\* the handshake at line 476: the request of the first entry is serialized and
\* nothing is written yet
InitWrite ==
    /\ pc = "write_loop"
    /\ copy = "connection.rs"
    /\ endian \in {"little", "big"}
    /\ display = [tag |-> "Ok", value |-> <<":", "0">>]
    /\ xauthority \in {x \in XauthEnv : x.set /\ x.openable /\ x.ioErrAt = NoIoErr
                                        /\ x.file \in {encode_entry(Entry1),
                                                       encode_entry(Entry2)}}
    /\ conf = parse_conf(display.value)
    /\ attempts = << [via |-> "unix", path |-> conf.socket_path, port |-> 0,
                      ok |-> TRUE] >>
    /\ stream = NewStream("Unix")
    /\ xauth_entries = XAuthEntry_parse(xauthority)
    /\ sr = serialize(ConnSetupRequest_new(xauth_entries.entries[1], endian),
                      endian).bytes
    /\ written_count = 0
    /\ wire = <<>>
    /\ io = NoIo
    /\ buff = <<>>
    /\ last_read = NoRead
    /\ r = NoResult
    /\ proc = Running
    /\ input \in WriteSchedules
    /\ output = 0

\* the result the transport gives to the next write of `len` bytes
scheduled_write(len) ==
    IF input.forever \/ input.zeros > 0 THEN [tag |-> "Ok", kind |-> "", n |-> 0]
    ELSE CASE input.then = "all" -> [tag |-> "Ok", kind |-> "", n |-> len]
           [] input.then = "one" -> [tag |-> "Ok", kind |-> "", n |-> 1]
           [] OTHER -> [tag |-> "Err", kind |-> "BrokenPipe", n |-> 0]

\* one iteration of `while written_count < sr.len()`, lines 477-485, on the
\* scheduled result; `output` is the parity of the number of iterations
write_step ==
    /\ pc = "write_loop"
    /\ written_count < Len(sr)
    /\ LET data == write_offer(sr, written_count)
           w == Stream_write(stream, scheduled_write(Len(data)))
       IN  /\ io' = [io EXCEPT !.writes = Min(@ + w.calls, MaxWritesCounted),
                               !.zero_writes = Min(@ + (IF w.tag = "Ok" /\ w.n = 0
                                                        THEN 1 ELSE 0),
                                                   MaxWritesCounted)]
           /\ IF w.tag = "Ok"
              THEN /\ written_count' = written_count + w.n
                   /\ wire' = wire \o Take(data, w.n)
                   /\ pc' = pc /\ proc' = proc
              ELSE /\ written_count' = written_count
                   /\ wire' = wire
                   /\ pc' = "done" /\ proc' = Exited(1)
    /\ input' = IF input.zeros > 0 THEN [input EXCEPT !.zeros = @ - 1] ELSE input
    /\ output' = 1 - output
    /\ UNCHANGED <<copy, endian, display, xauthority, conf, attempts, stream,
                   xauth_entries, sr, buff, last_read, r>>

NextWrite == write_step \/ authenticate_set_nonblocking

\* the driver is a single thread that keeps running and every underlying
\* write returns: an iteration that can be made is made
SpecWrite ==
    /\ InitWrite /\ [][NextWrite]_vars
    /\ WF_vars(write_step) /\ WF_vars(authenticate_set_nonblocking)

\* C30: once every underlying write returns, the write loop terminates: it
\* ends after the payload was accepted or at the first write error; writes
\* that return Ok(0) cannot keep it running forever.
C30_WriteLoopEnds == <>(pc # "write_loop")

\* the loop ends when the transport stops answering Ok(0)
C30_EndsUnlessZeroForever == (~input.forever) ~> (pc # "write_loop")

\* every write returned Ok(0): the loop is still running and nothing was sent
C30_FailingInput ==
    /\ pc = "write_loop" /\ input.forever /\ io.zero_writes = MaxWritesCounted
    /\ written_count = 0 /\ wire = <<>> /\ proc = Running

---------------------------------------------------------------------------
(* The states of the transport during the handshake *)

\* a Stream value exists: open has returned one
StreamExists == stream # NoStream

\* the connect attempt that produced the stream succeeded
ProducedByConnect ==
    /\ attempts # <<>>
    /\ attempts[Len(attempts)].ok
    /\ stream.variants = (IF attempts[Len(attempts)].via = "unix" THEN "Unix" ELSE "Tcp")

\* a write or read on the stream as it is would be answered NotConnected
WouldBeNotConnected ==
    \/ Stream_write(stream, [tag |-> "Ok", kind |-> "", n |-> 1]).kind = "NotConnected"
    \/ Stream_read(stream, [tag |-> "Ok", kind |-> "", bytes |-> <<1>>]).kind
          = "NotConnected"

\* C31: every Stream value that exists was produced by a successful connect
\* and has open = true, no step sets open to false or replaces the stream, and
\* no write or read of the handshake is answered NotConnected.
C31_StreamStaysOpen ==
    /\ [](/\ StreamExists => (stream.open /\ ProducedByConnect)
          /\ ~StreamExists => (io.writes = 0 /\ io.reads = 0)
          /\ (io.writes > 0 \/ io.reads > 0 \/ pc \in {"write_loop", "read_loop"})
                => ~WouldBeNotConnected
          /\ last_read.kind # "NotConnected")
    /\ [][/\ StreamExists => (stream'.open /\ stream'.variants = stream.variants)
          /\ (pc = "write_loop" /\ pc' = "done") => io'.writes = io.writes + 1
          /\ (pc = "read_loop" /\ pc' # pc) => io'.reads = io.reads + 1]_vars

\* the stream came from the TCP fallback, was written to, switched to
\* non-blocking mode and read from, and is still open
C31_Witness ==
    /\ StreamExists /\ stream.variants = "Tcp" /\ Len(attempts) = 2
    /\ stream.open /\ stream.nonblocking /\ io.writes > 0 /\ io.reads > 0
    /\ last_read.tag = "Err" /\ pc = "done"

---------------------------------------------------------------------------
(* The request built from the entries of an authority file *)

\* an authority file in which every length prefix announces 65535 bytes and
\* every field has them
LongestFile == [i \in 1..(2 + 4 * (2 + MaxFieldLen)) |-> 255]

RequestLists ==
    {<<XAuthEntry(256, <<104>>, <<48>>, NameOf(n), DataOf(d))>> :
        n \in 0..MaxAuthLen, d \in 0..MaxAuthLen}
    \cup {<<CookieEntry>>, <<CookieEntry, Entry1>>, <<Entry2, CookieEntry>>}
    \cup {<<XAuthEntry(0, <<>>, <<48>>, NameOf(n), DataOf(d))>> :
            n \in {1, 256, MaxFieldLen}, d \in {2, MaxFieldLen}}

\* the authority files: whole records, alone or followed by a started record
RequestFiles ==
    {encode_entries(es) \o t : es \in RequestLists, t \in {<<>>, <<255, 255, 1>>}}
    \cup {LongestFile}

InitRequest ==
    /\ pc = "call"
    /\ copy = "connection.rs"
    /\ endian \in {"little", "big"}
    /\ display = [tag |-> "NotPresent", value |-> <<>>]
    /\ input \in {[file |-> f] : f \in RequestFiles}
    /\ xauthority = [set |-> TRUE, openable |-> TRUE, file |-> input.file,
                     ioErrAt |-> NoIoErr]
    /\ Idle
    /\ output = NoEntries

\* XAuthEntry::parse() on the file
call_parse_entries ==
    /\ pc = "call"
    /\ output' = XAuthEntry_parse(xauthority)
    /\ pc' = "parsed"
    /\ UNCHANGED <<copy, endian, display, xauthority, conf, attempts, stream,
                   xauth_entries, sr, written_count, wire, io, buff, last_read, r,
                   proc, input>>

\* ConnSetupRequest::new(entry).serialize() for each entry parse returned
call_serialize_entries ==
    /\ pc = "parsed"
    /\ output' = [tag |-> output.tag, entries |-> output.entries,
                  payloads |-> [i \in DOMAIN output.entries |->
                      serialize(ConnSetupRequest_new(output.entries[i], endian),
                                endian)]]
    /\ pc' = "return"
    /\ UNCHANGED <<copy, endian, display, xauthority, conf, attempts, stream,
                   xauth_entries, sr, written_count, wire, io, buff, last_read, r,
                   proc, input>>

NextRequest == call_parse_entries \/ call_serialize_entries

SpecRequest == InitRequest /\ [][NextRequest]_vars

\* the payload is a 12-byte header, the name, p zero bytes, the data and
\* q zero bytes
PaddedBy(bytes, name, data, p, q) ==
    LET n == Len(name)
        d == Len(data)
    IN  /\ Len(bytes) = 12 + n + p + d + q
        /\ SubSeq(bytes, 13, 12 + n) = name
        /\ SubSeq(bytes, 13 + n, 12 + n + p) = Zeros(p)
        /\ SubSeq(bytes, 13 + n + p, 12 + n + p + d) = data
        /\ SubSeq(bytes, 13 + n + p + d, 12 + n + p + d + q) = Zeros(q)

\* C32: for every entry XAuthEntry::parse returns, the name and the data are
\* at most 65535 bytes long, serializing the request built from it does not
\* fail, and each of the two padding runs of the payload has 0 to 3 bytes.
C32_SerializeNeverFails ==
    /\ pc = "parsed"
          => \A i \in DOMAIN output.entries :
                /\ Len(output.entries[i].authorization_protocol_name) <= 65535
                /\ Len(output.entries[i].authorization_protocol_data) <= 65535
    /\ pc = "return"
          => \A i \in DOMAIN output.entries :
                /\ output.payloads[i].tag = "Ok"
                /\ \E p \in 0..3, q \in 0..3 :
                      PaddedBy(output.payloads[i].bytes,
                               output.entries[i].authorization_protocol_name,
                               output.entries[i].authorization_protocol_data, p, q)

\* an entry whose name length needs both bytes of its prefix has been parsed
\* and its request serialized, with no padding behind the 256-byte name and
\* two padding bytes behind the 2-byte data
C32_Witness ==
    /\ pc = "return" /\ Len(output.entries) = 1
    /\ Len(output.entries[1].authorization_protocol_name) = 256
    /\ Len(output.entries[1].authorization_protocol_data) = 2
    /\ output.payloads[1].tag = "Ok"
    /\ PaddedBy(output.payloads[1].bytes,
                output.entries[1].authorization_protocol_name,
                output.entries[1].authorization_protocol_data, 0, 2)

===========================================================================
